---- MODULE Spec2Model ----
(***************************************************************************)
(* Model of the forward-error-correction core of safe-udp (src/fec.go,     *)
(* src/autotune.go): the shard encoder, the shard decoder with its shard   *)
(* sets, floor and eviction, and the auto-tuner the decoder consults.      *)
(*                                                                         *)
(* uint32 values (sequence ids, the PAWS ceiling) keep their 32-bit width: *)
(* a value is the record [hi, lo] of its two 16-bit halves, because the    *)
(* model checker's integers end at 2^31-1.  Group ids (sequence / S with   *)
(* S >= 2) are below 2^31 and are plain integers.  int is taken to be 64   *)
(* bits wide (amd64/arm64 builds), so int(seqid) is never negative.        *)
(***************************************************************************)
EXTENDS Integers, Sequences, FiniteSets, TLC

VARIABLES
    dec,        \* the fecDecoder (fields of the struct, autoTune included)
    recovered,  \* what the last decode call returned
    last,       \* the last decode call: its packet, whether it was stored,
                \* the members it drained (in pop order), its reconstructions
    trace,      \* SpecGroup only: the calls made so far, in order
    sender,     \* geometry <<D, P>> of the encoder whose packets arrive
    net,        \* the sender's packets in the order sent (net[i] is the i-th)
    cursor,     \* SpecDec: position in net of the latest-sent packet delivered
    calls,      \* number of decode calls made so far
    enc,        \* the fecEncoder
    encOut,     \* what the last encode call sealed and returned
    encCalls,   \* number of encode calls made so far
    snmp,       \* DefaultSnmp, the process-wide counters
    made,       \* SpecNew: the arguments and results of the last constructor calls
    tune,       \* SpecPulse, SpecSample: the pulses of an autoTune
    tuneIn,     \* the stream sampled into it: tag pattern <<d, p>>, next sequence
    rb,         \* SpecRing: a RingBuffer (buffer, head, tail)
    rbOut,      \* what the last RingBuffer operation returned
    rbCount,    \* elements pushed and elements removed so far
    tm,         \* SpecTimer: a Timer, its goroutines, the callers of Put, the clock
    sess,       \* SpecTx: a UDPSession, its connections, the counters
    txIn        \* the last tx call: its queue, the outcomes of its writes

vars == <<dec, recovered, last, trace, sender, net, cursor, calls, enc, encOut, encCalls, snmp,
          made, tune, tuneIn, rb, rbOut, rbCount, tm, sess, txIn>>
decVars == <<dec, recovered, last, trace, sender, net, cursor, calls>>
encVars == <<enc, encOut, encCalls>>
tuneVars == <<tune, tuneIn>>
ringVars == <<rb, rbOut, rbCount>>
auxVars == <<made, tuneVars, ringVars, tm, sess, txIn>>

----------------------------------------------------------------------------
(* Program constants *)

typeData == 241
typeParity == 242
fecHeaderSize == 6
maxShardSets == 3
MaxAutoTuneSamples == 256

(* Order of the field the erasure codec computes in.  The library works in *)
(* GF(2^8); the model uses the prime field of this order, which gives a    *)
(* maximum-distance-separable code for every geometry with D+P <= GFOrder. *)
GFOrder == 7

----------------------------------------------------------------------------
(* Bounds of the model *)

\* largest data-shard count and largest group size of a checked geometry
MaxData == 3
MaxShards == 4
\* SpecGroup: decode calls per run
MaxFeeds == 6
\* SpecDec: groups of the sender's stream, decode calls per run, longest
\* burst of lost packets, farthest a packet is delivered out of order
NumGroups == 5
MaxCalls == 6
MaxSkip == 2
MaxReorder == 3
\* SpecPulse: longest run of Data-tagged and of Parity-tagged pulses
MaxPeriodData == 10
MaxPeriodParity == 3
\* SpecSample: Sample calls per run
MaxSamples == 6
MaxAnchorCalls == 3
\* SpecRing: largest initial buffer, number of pushes and of operations
MaxRingCap == 3
MaxPushes == 6
MaxRingOps == 8
\* SpecRing: latest callback invocation at which an iteration is stopped
MaxStop == 3
\* SpecTimer: worker goroutines, functions put, latest deadline, and the
\* time up to which the clock runs when no timer is waiting
MaxWorkers == 1
NumPuts == 2
MaxDeadline == 1
MaxTime == 2
\* SpecTx: calls of tx, messages per queue, bytes per message
MaxTxCalls == 2
MaxQueue == 3
MaxMsgLen == 2
\* SpecRaw: decode calls per run
MaxRawCalls == 3
\* SpecTune: decode calls per run
MaxTuneCalls == 7
\* SpecEnc: encode calls per run, wall-clock range, groups before the wrap
MaxEncodes == 8
MaxNow == 2
WrapGroups == 1
\* SpecLink: encode calls and decode calls per run
MaxLinkEncodes == 3
MaxLinkFeeds == 3

----------------------------------------------------------------------------
(* uint32 arithmetic on [hi, lo] halves *)

W16 == 2^16

U32(n) == [hi |-> n \div W16, lo |-> n % W16]

MaxU32 == [hi |-> W16 - 1, lo |-> W16 - 1]

\* a + n mod 2^32, for 0 <= n < 2^16
U32AddInt(a, n) ==
    LET s == a.lo + n
    IN  [hi |-> (a.hi + (s \div W16)) % W16, lo |-> s % W16]

\* a - n for 0 <= n < 2^16 and n <= a
U32SubInt(a, n) ==
    IF a.lo >= n THEN [hi |-> a.hi, lo |-> a.lo - n]
    ELSE [hi |-> a.hi - 1, lo |-> a.lo + W16 - n]

U32Lt(a, b) == a.hi < b.hi \/ (a.hi = b.hi /\ a.lo < b.lo)
U32Le(a, b) == a = b \/ U32Lt(a, b)

\* a / s and a % s for 2 <= s < 2^15; the quotient is below 2^31
U32DivInt(a, s) == (a.hi \div s) * W16 + (((a.hi % s) * W16 + a.lo) \div s)
U32ModInt(a, s) == ((a.hi % s) * W16 + a.lo) % s

\* q * s as a uint32, for q * s < 2^32
U32MulInt(q, s) ==
    LET ql == (q % W16) * s
        qh == (q \div W16) * s
    IN  [hi |-> (qh + (ql \div W16)) % W16, lo |-> ql % W16]

\* a - b for b <= a
U32Sub(a, b) ==
    IF a.lo >= b.lo THEN [hi |-> a.hi - b.hi, lo |-> a.lo - b.lo]
    ELSE [hi |-> a.hi - b.hi - 1, lo |-> a.lo + W16 - b.lo]

\* a % m for m > 2^31 (every a is below 2 * m)
U32ModU32(a, m) == IF U32Le(m, a) THEN U32Sub(a, m) ELSE a

\* int32(later - earlier) on group ids, which are below 2^31: the
\* difference is within int32 and the conversion changes nothing
timediff(later, earlier) == later - earlier

Max(a, b) == IF a > b THEN a ELSE b

(* Go's int is 64 bits wide; where a value of that range beyond 2^31 is   *)
(* needed, [hi, lo] stands for hi * 2^16 + lo, hi of either sign.          *)
Int64(n) == [hi |-> n \div W16, lo |-> n % W16]

Int64Add(a, b) ==
    LET s == a.lo + b.lo
    IN  [hi |-> a.hi + b.hi + (s \div W16), lo |-> s % W16]

Int64LeZero(a) == a.hi < 0 \/ (a.hi = 0 /\ a.lo = 0)

\* the conversion uint32(n): the low 32 bits
Uint32Of(a) == [hi |-> a.hi % W16, lo |-> a.lo]

----------------------------------------------------------------------------
(* The erasure codec (reedsolomon.New / Encode / ReconstructData): a       *)
(* systematic Cauchy code over the prime field.  A shard is a sequence of  *)
(* field elements; a missing shard is the empty sequence.                  *)

GFInv(a) == (a * a * a * a * a) % GFOrder

\* coefficient of data shard k in parity shard r (d <= r, k < d)
Coef(r, k) == GFInv((r - k) % GFOrder)

RECURSIVE RowSum(_, _, _, _)
\* sum over data slots 0..k of Coef(r, i) * col[i]
RowSum(r, col, k, acc) ==
    IF k < 0 THEN acc % GFOrder
    ELSE RowSum(r, col, k - 1, acc + Coef(r, k) * col[k])

\* reedsolomon.New: the codec for d data and p parity shards
CodecNew(d, p) ==
    IF d <= 0 \/ p <= 0 \/ d + p > 256
    THEN [err |-> TRUE, d |-> 0, p |-> 0]
    ELSE [err |-> FALSE, d |-> d, p |-> p]

\* codec.Encode on equal-sized data shards 0..d-1: the parity shards d..d+p-1
CodecEncode(codec, data, size) ==
    [r \in codec.d .. (codec.d + codec.p - 1) |->
        [j \in 1..size |->
            RowSum(r, [k \in 0..(codec.d - 1) |-> data[k][j]], codec.d - 1, 0)]]

ShardSizeOf(shards, n) ==
    LET present == {k \in 0..(n - 1) : Len(shards[k]) # 0}
    IN  IF present = {} THEN 0
        ELSE Len(shards[CHOOSE k \in present : \A m \in present : k <= m])

RECURSIVE FirstPresent(_, _, _, _)
\* the first `want` present shard indices, scanning upward from k
FirstPresent(shards, n, k, want) ==
    IF want = 0 \/ k >= n THEN {}
    ELSE IF Len(shards[k]) # 0
         THEN {k} \cup FirstPresent(shards, n, k + 1, want - 1)
         ELSE FirstPresent(shards, n, k + 1, want)

\* codec.ReconstructData(shards): shards is a function on 0..n-1.  Returns
\* [err, shards]; on success every missing data shard has been rebuilt from
\* the first d present shards.
CodecReconstructData(codec, shards, n) ==
    LET total == codec.d + codec.p
        size == ShardSizeOf(shards, n)
        present == {k \in 0..(n - 1) : Len(shards[k]) # 0}
        dataPresent == {k \in present : k < codec.d}
        missing == (0..(codec.d - 1)) \ present
        used == FirstPresent(shards, n, 0, codec.d)
        rows == {r \in used : r >= codec.d}
        Solve(j) ==
            CHOOSE f \in [missing -> 0..(GFOrder - 1)] :
                \A r \in rows :
                    RowSum(r, [k \in 0..(codec.d - 1) |->
                                  IF k \in missing THEN f[k] ELSE shards[k][j]],
                           codec.d - 1, 0) = shards[r][j]
    IN  IF codec.err \/ n # total THEN [err |-> TRUE, shards |-> shards]
        ELSE IF size = 0 THEN [err |-> TRUE, shards |-> shards]
        ELSE IF \E k \in present : Len(shards[k]) # size
             THEN [err |-> TRUE, shards |-> shards]
        ELSE IF Cardinality(present) = total \/ Cardinality(dataPresent) = codec.d
             THEN [err |-> FALSE, shards |-> shards]
        ELSE IF Cardinality(present) < codec.d
             THEN [err |-> TRUE, shards |-> shards]
        ELSE [err |-> FALSE,
              shards |-> [k \in 0..(n - 1) |->
                            IF k \in missing
                            THEN [j \in 1..size |-> Solve(j)[k]]
                            ELSE shards[k]]]

\* b[:n] followed by clear(b[len(b):]) on a pool buffer: b zero-filled to n
Pad(b, n) == [j \in 1..n |-> IF j <= Len(b) THEN b[j] ELSE 0]

----------------------------------------------------------------------------
(* autoTune (src/autotune.go).  The log is the array pulses[0..255] of     *)
(* [bit, seq] records; the model keeps the slots written so far, every    *)
(* other slot holding the zero value the array was created with.          *)

ZeroPulse == [bit |-> FALSE, seq |-> U32(0)]

NewPulses == [i \in {} |-> ZeroPulse]

\* tune.pulses[i]
PulseAt(pulses, i) == IF i \in DOMAIN pulses THEN pulses[i] ELSE ZeroPulse

\* Sample logging the opposite tag
SampleInverted(pulses, bit, seq) ==
    LET slot == U32ModInt(seq, MaxAutoTuneSamples)
    IN  IF U32Le(PulseAt(pulses, 0).seq, seq)
           /\ U32Le(seq, U32AddInt(PulseAt(pulses, 0).seq, MaxAutoTuneSamples))
        THEN [i \in DOMAIN pulses \cup {slot} |->
                 IF i = slot THEN [bit |-> ~bit, seq |-> seq] ELSE pulses[i]]
        ELSE pulses

\* Sample without the upper end of the window
SampleNoUpper(pulses, bit, seq) ==
    LET slot == U32ModInt(seq, MaxAutoTuneSamples)
    IN  IF U32Le(PulseAt(pulses, 0).seq, seq)
        THEN [i \in DOMAIN pulses \cup {slot} |->
                 IF i = slot THEN [bit |-> bit, seq |-> seq] ELSE pulses[i]]
        ELSE pulses

\* Sample without the lower end of the window
SampleNoLower(pulses, bit, seq) ==
    LET slot == U32ModInt(seq, MaxAutoTuneSamples)
    IN  IF U32Le(seq, U32AddInt(PulseAt(pulses, 0).seq, MaxAutoTuneSamples))
        THEN [i \in DOMAIN pulses \cup {slot} |->
                 IF i = slot THEN [bit |-> bit, seq |-> seq] ELSE pulses[i]]
        ELSE pulses

\* autoTune.Sample
Sample(pulses, bit, seq) ==
    LET slot == U32ModInt(seq, MaxAutoTuneSamples)
    IN  IF U32Le(PulseAt(pulses, 0).seq, seq)
           /\ U32Le(seq, U32AddInt(PulseAt(pulses, 0).seq, MaxAutoTuneSamples))
        THEN [i \in DOMAIN pulses \cup {slot} |->
                 IF i = slot THEN [bit |-> bit, seq |-> seq] ELSE pulses[i]]
        ELSE pulses

RECURSIVE FirstIdx(_, _, _)
\* the least idx in lo..hi with P[idx], or 0 when there is none (lo >= 1)
FirstIdx(P, lo, hi) ==
    IF lo > hi THEN 0
    ELSE IF lo = hi THEN (IF P[lo] THEN lo ELSE 0)
    ELSE LET mid == (lo + hi) \div 2
             l == FirstIdx(P, lo, mid)
         IN  IF l # 0 THEN l ELSE FirstIdx(P, mid + 1, hi)

\* FindPeriod without the consecutiveness check of its second loop
FindPeriodNoGap(pulses, bit) ==
    LET N == MaxAutoTuneSamples
        Idx == 1..(N - 1)
        Left == [idx \in Idx |->
                    PulseAt(pulses, idx - 1).bit # bit /\ PulseAt(pulses, idx).bit = bit]
        leftEdge == FirstIdx(Left, 1, N - 1)
        Edge == [idx \in Idx |->
                    PulseAt(pulses, idx - 1).bit = bit /\ PulseAt(pulses, idx).bit # bit]
        rightEdge == FirstIdx(Edge, leftEdge + 1, N - 1)
    IN  rightEdge - leftEdge

\* autoTune.FindPeriod.  Both loops keep lastPulse = pulses[idx-1], so each
\* stops at the least idx at which its condition holds; leftEdge and
\* rightEdge keep their zero value when the log ends first.
FindPeriod(pulses, bit) ==
    LET N == MaxAutoTuneSamples
        Idx == 1..(N - 1)
        Left == [idx \in Idx |->
                    PulseAt(pulses, idx - 1).bit # bit /\ PulseAt(pulses, idx).bit = bit]
        leftEdge == FirstIdx(Left, 1, N - 1)
        Gap == [idx \in Idx |->
                   U32AddInt(PulseAt(pulses, idx - 1).seq, 1) # PulseAt(pulses, idx).seq]
        Edge == [idx \in Idx |->
                    PulseAt(pulses, idx - 1).bit = bit /\ PulseAt(pulses, idx).bit # bit]
        Stop == [idx \in Idx |-> Gap[idx] \/ Edge[idx]]
        stop == FirstIdx(Stop, leftEdge + 1, N - 1)
        rightEdge == IF stop # 0 /\ ~Gap[stop] THEN stop ELSE 0
    IN  IF stop # 0 /\ Gap[stop] THEN -1 ELSE rightEdge - leftEdge

----------------------------------------------------------------------------
(* RingBuffer (src/unnamed/part_000).  buffer is a function on             *)
(* 0..len(buffer)-1; 0 is the zero value of the element type, the elements *)
(* pushed are positive.                                                    *)

\* &RingBuffer[T]{buffer: make([]T, n)}
newRing(n) == [buffer |-> [i \in 0..(n - 1) |-> 0], head |-> 0, tail |-> 0]

\* len(rb.buffer)
RingCap(r) == Cardinality(DOMAIN r.buffer)

RingEmpty(r) == r.head = r.tail

RingFull(r) == (r.tail + 1) % RingCap(r) = r.head

RingLen(r) ==
    IF r.tail >= r.head THEN r.tail - r.head
    ELSE RingCap(r) - r.head + r.tail

\* ForEach with a function that always returns true: the elements visited,
\* in order
RingForEach(r) ==
    IF RingEmpty(r) THEN <<>>
    ELSE IF r.head < r.tail
         THEN [i \in 1..(r.tail - r.head) |-> r.buffer[r.head + i - 1]]
         ELSE [i \in 1..(RingCap(r) - r.head) |-> r.buffer[r.head + i - 1]]
                 \o [i \in 1..r.tail |-> r.buffer[i - 1]]

\* grow that copies the elements in slice order instead of ring order
growInPlace(r) ==
    LET currentLen == RingLen(r)
        grown == currentLen + ((currentLen + 9) \div 10) + 1
        newCapacity == IF grown < currentLen + 2 THEN currentLen + 2 ELSE grown
    IN  [buffer |-> [i \in 0..newCapacity |->
                        IF i < RingCap(r) THEN r.buffer[i] ELSE 0],
         head |-> 0,
         tail |-> currentLen]

\* RingBuffer.grow
grow(r) ==
    LET currentLen == RingLen(r)
        grown == currentLen + ((currentLen + 9) \div 10) + 1
        newCapacity == IF grown < currentLen + 2 THEN currentLen + 2 ELSE grown
        items == RingForEach(r)
    IN  [buffer |-> [i \in 0..newCapacity |->
                        IF i < Len(items) THEN items[i + 1] ELSE 0],
         head |-> 0,
         tail |-> currentLen]

\* RingBuffer.MaxLen
RingMaxLen(r) == RingCap(r) - 1

\* the visits of an iteration whose callback returns false at its stop-th
\* invocation (never, when stop is 0): the return inside the loops ends the
\* iteration after that visit
VisitsUntil(order, stop) ==
    IF stop = 0 \/ stop >= Len(order) THEN order ELSE SubSeq(order, 1, stop)

\* ForEachReverse walking its two wrapped segments in the other order
ReverseOrderSwapped(r) ==
    IF RingEmpty(r) THEN <<>>
    ELSE IF r.head < r.tail
         THEN [i \in 1..(r.tail - r.head) |-> r.buffer[r.tail - i]]
         ELSE [i \in 1..(RingCap(r) - r.head) |-> r.buffer[RingCap(r) - i]]
                 \o [i \in 1..r.tail |-> r.buffer[r.tail - i]]

\* RingBuffer.ForEachReverse with a function that always returns true: the
\* elements visited, in order
ReverseOrder(r) ==
    IF RingEmpty(r) THEN <<>>
    ELSE IF r.head < r.tail
         THEN [i \in 1..(r.tail - r.head) |-> r.buffer[r.tail - i]]
         ELSE [i \in 1..r.tail |-> r.buffer[r.tail - i]]
                 \o [i \in 1..(RingCap(r) - r.head) |-> r.buffer[RingCap(r) - i]]

\* RingBuffer.ForEach
RingForEachUntil(r, stop) == VisitsUntil(RingForEach(r), stop)

\* RingBuffer.ForEachReverse
RingForEachReverse(r, stop) == VisitsUntil(ReverseOrder(r), stop)

\* Push that never grows
RingPushNoGrow(r, value) ==
    [r EXCEPT !.buffer[r.tail] = value,
              !.tail = (r.tail + 1) % RingCap(r)]

\* RingBuffer.Push; it returns true on every path
RingPush(r, value) ==
    LET r1 == IF RingFull(r) THEN grow(r) ELSE r
    IN  [r1 EXCEPT !.buffer[r1.tail] = value,
                   !.tail = (r1.tail + 1) % RingCap(r1)]

\* Pop without the test for an empty buffer
RingPopUnchecked(r) ==
    [rb |-> [r EXCEPT !.buffer[r.head] = 0,
                      !.head = (r.head + 1) % RingCap(r)],
     value |-> r.buffer[r.head], ok |-> TRUE]

\* RingBuffer.Pop: [rb, value, ok]
RingPop(r) ==
    IF RingEmpty(r) THEN [rb |-> r, value |-> 0, ok |-> FALSE]
    ELSE [rb |-> [r EXCEPT !.buffer[r.head] = 0,
                           !.head = (r.head + 1) % RingCap(r)],
          value |-> r.buffer[r.head], ok |-> TRUE]

\* RingBuffer.Peek: [value, ok, nil], value the element the returned
\* pointer refers to, nil whether that pointer is nil
RingPeek(r) ==
    IF RingEmpty(r) THEN [value |-> 0, ok |-> FALSE, nil |-> TRUE]
    ELSE [value |-> r.buffer[r.head], ok |-> TRUE, nil |-> FALSE]

\* Discard that does not cap n to Len
RingDiscardUncapped(r, n) ==
    LET gone == {(r.head + k) % RingCap(r) : k \in 0..(n - 1)}
    IN  IF n <= 0 \/ RingEmpty(r) THEN [rb |-> r, n |-> 0]
        ELSE [rb |-> [buffer |-> [i \in DOMAIN r.buffer |->
                                    IF i \in gone THEN 0 ELSE r.buffer[i]],
                      head |-> (r.head + n) % RingCap(r),
                      tail |-> r.tail],
              n |-> n]

\* RingBuffer.Discard: [rb, n]
RingDiscard(r, n) ==
    LET m == IF n >= RingLen(r) THEN RingLen(r) ELSE n
        gone == {(r.head + k) % RingCap(r) : k \in 0..(m - 1)}
    IN  IF n <= 0 \/ RingEmpty(r) THEN [rb |-> r, n |-> 0]
        ELSE [rb |-> [buffer |-> [i \in DOMAIN r.buffer |->
                                    IF i \in gone THEN 0 ELSE r.buffer[i]],
                      head |-> (r.head + m) % RingCap(r),
                      tail |-> r.tail],
              n |-> m]

----------------------------------------------------------------------------
(* Timer (src/timers.go).  A function put is identified by the number of   *)
(* the goroutine that puts it; ts is its deadline.  Each seched goroutine  *)
(* owns a time.Timer: at is the time it is set to expire at, fired the     *)
(* time value waiting in its channel (NoTime: none).  sync tells which of  *)
(* the two time.Timer behaviours the build has: with it (Go 1.23 default)  *)
(* Stop and Reset discard a value not yet received and Stop reports such a *)
(* timer as still running; without it (asynctimerchan=1, older go          *)
(* directive) the value stays in the channel's buffer of one.              *)

NoTime == 0 - 1

\* NewTimer(parallel), and the goroutines about to call Put
NewTimer(parallel, sync) ==
    [now |-> 0, sync |-> sync, closed |-> FALSE,
     prependTasks |-> <<>>,
     chPrependNotify |-> FALSE,
     put |-> [f \in 1..NumPuts |-> "idle"],
     ts |-> [f \in 1..NumPuts |-> 0],
     open |-> [f \in 1..NumPuts |-> FALSE],
     skipped |-> FALSE,
     prepend |-> [pc |-> "select", tasks |-> <<>>],
     seched |-> [w \in 1..parallel |->
                    [pc |-> "select", tasks |-> {}, at |-> 0, fired |-> NoTime,
                     drained |-> FALSE]],
     runs |-> [f \in 1..NumPuts |-> 0]]

\* time.Timer.Stop on the timer of seched goroutine w: [stopped, w]
TimerStop(w, sync) ==
    [stopped |-> w.at # NoTime \/ (sync /\ w.fired # NoTime),
     w |-> [w EXCEPT !.at = NoTime, !.fired = IF sync THEN NoTime ELSE @]]

\* time.Timer.Reset to expire at time when
TimerReset(w, sync, when) ==
    [w EXCEPT !.at = when, !.fired = IF sync THEN NoTime ELSE @]

\* tasks[0].ts: the earliest deadline in the heap
FirstTs(tasks, ts) ==
    CHOOSE t \in {ts[f] : f \in tasks} : \A f \in tasks : t <= ts[f]

\* seched launching every task it receives at once
SchedTaskNow(w, f, ts, now, sync) == [w |-> w, ran |-> {f}]

\* seched, case task := <-t.chTask, at time now: [w, ran].  A goroutine that
\* waits for a value of a stopped timer that holds none waits for ever
\* (pc "drain").
SchedTask(w, f, ts, now, sync) ==
    IF now > ts[f] THEN [w |-> w, ran |-> {f}]
    ELSE LET pushed == [w EXCEPT !.tasks = @ \cup {f}]
             st == TimerStop(pushed, sync)
             drain == ~st.stopped /\ ~w.drained
             received == [st.w EXCEPT !.fired = NoTime]
         IN  IF drain /\ st.w.fired = NoTime
             THEN [w |-> [st.w EXCEPT !.pc = "drain"], ran |-> {}]
             ELSE [w |-> TimerReset(IF drain THEN received ELSE st.w, sync,
                                    Max(now, FirstTs(pushed.tasks, ts))),
                   ran |-> {}]

RECURSIVE PopDue(_, _, _)
\* seched, the loop of case now := <-timer.C: the tasks popped from the
\* heap, in the order they are popped, tasks[0] being the earliest
PopDue(tasks, ts, tnow) ==
    IF tasks = {} THEN <<>>
    ELSE LET first == CHOOSE f \in tasks : ts[f] = FirstTs(tasks, ts)
         IN  IF tnow > ts[first]
             THEN <<first>> \o PopDue(tasks \ {first}, ts, tnow)
             ELSE <<>>

\* seched, case now := <-timer.C, received at time now: [w, ran]
SchedTimer(w, ts, now, sync) ==
    LET tnow == w.fired
        popped == PopDue(w.tasks, ts, tnow)
        due == {popped[k] : k \in DOMAIN popped}
        rest == w.tasks \ due
        got == [w EXCEPT !.fired = NoTime, !.drained = TRUE, !.tasks = rest]
    IN  IF rest = {} THEN [w |-> got, ran |-> due]
        ELSE [w |-> [TimerReset(got, sync, now + Max(0, FirstTs(rest, ts) - tnow))
                        EXCEPT !.drained = FALSE],
              ran |-> due]

\* go task.execute() for every task of ran
Execute(runs, ran) == [f \in DOMAIN runs |-> IF f \in ran THEN runs[f] + 1 ELSE runs[f]]

----------------------------------------------------------------------------
(* UDPSession.tx, defaultTx, batchTx (src/README.md).  A message is       *)
(* [id, len]: its place in the queue and len(Buffers[0]).  The session's  *)
(* record holds, besides its fields, what its connections were asked to   *)
(* do during the last call: conn, the WriteTo calls in order, each with   *)
(* its outcome; xconnLog, the queues given to WriteBatch; notified, the   *)
(* errors given to notifyWriteError; called, the functions entered.       *)
(* OutPkts and OutBytes are the counters of DefaultSnmp.  fails is the    *)
(* set of k such that the k-th WriteTo of the call returns an error.      *)

\* a nil error
NoError == [op |-> "nil"]

newUDPSession ==
    [xconn |-> FALSE, xconnWriteError |-> NoError,
     OutPkts |-> 0, OutBytes |-> 0,
     conn |-> <<>>, xconnLog |-> <<>>, notified |-> <<>>, called |-> <<>>]

NoTxCall == [n |-> 0, txqueue |-> <<>>, xconn |-> FALSE, batchFails |-> FALSE,
             fails |-> {}, was |-> newUDPSession]

WriteError(k) == [op |-> "write", k |-> k]
BatchError == [op |-> "batch_write"]

\* s.notifyWriteError(err); not among the sources: it hands the error to
\* the session's write-error notification
notifyWriteError(s, err) == [s EXCEPT !.notified = Append(@, err)]

RECURSIVE defaultTxKeepsOn(_, _, _, _, _)
\* the loop of defaultTx without its break
defaultTxKeepsOn(s, txqueue, fails, k, n) ==
    IF k > Len(txqueue) THEN [s |-> s, nbytes |-> n.nbytes, npkts |-> n.npkts]
    ELSE IF k \notin fails
         THEN defaultTxKeepsOn([s EXCEPT !.conn = Append(@, [msg |-> txqueue[k], ok |-> TRUE])],
                               txqueue, fails, k + 1,
                               [nbytes |-> n.nbytes + txqueue[k].len, npkts |-> n.npkts + 1])
         ELSE defaultTxKeepsOn(notifyWriteError(
                                   [s EXCEPT !.conn = Append(@, [msg |-> txqueue[k], ok |-> FALSE])],
                                   WriteError(k)),
                               txqueue, fails, k + 1, n)

RECURSIVE defaultTxLoop(_, _, _, _, _)
\* the loop of defaultTx from its k-th iteration on: [s, nbytes, npkts]
defaultTxLoop(s, txqueue, fails, k, n) ==
    IF k > Len(txqueue) THEN [s |-> s, nbytes |-> n.nbytes, npkts |-> n.npkts]
    ELSE IF k \notin fails
         THEN defaultTxLoop([s EXCEPT !.conn = Append(@, [msg |-> txqueue[k], ok |-> TRUE])],
                            txqueue, fails, k + 1,
                            [nbytes |-> n.nbytes + txqueue[k].len, npkts |-> n.npkts + 1])
         ELSE [s |-> notifyWriteError(
                         [s EXCEPT !.conn = Append(@, [msg |-> txqueue[k], ok |-> FALSE])],
                         WriteError(k)),
               nbytes |-> n.nbytes, npkts |-> n.npkts]

\* UDPSession.defaultTx
defaultTx(s, txqueue, fails) ==
    LET r == defaultTxLoop([s EXCEPT !.called = Append(@, "defaultTx")],
                           txqueue, fails, 1, [nbytes |-> 0, npkts |-> 0])
    IN  [r.s EXCEPT !.OutPkts = @ + r.npkts, !.OutBytes = @ + r.nbytes]

RECURSIVE TotalLen(_)
\* the sum of len(txqueue[k].Buffers[0])
TotalLen(txqueue) ==
    IF txqueue = <<>> THEN 0 ELSE Head(txqueue).len + TotalLen(Tail(txqueue))

\* batchTx that gives up when WriteBatch fails
batchTxNoFallback(s, txqueue, batchFails, fails) ==
    LET s1 == [s EXCEPT !.called = Append(@, "batchTx"),
                        !.xconnLog = Append(@, [msgs |-> txqueue, ok |-> ~batchFails])]
    IN  IF ~batchFails
        THEN [s1 EXCEPT !.OutPkts = @ + Len(txqueue), !.OutBytes = @ + TotalLen(txqueue)]
        ELSE [s1 EXCEPT !.xconnWriteError = BatchError]

\* UDPSession.batchTx; batchFails: WriteBatch returns an error
batchTx(s, txqueue, batchFails, fails) ==
    LET s1 == [s EXCEPT !.called = Append(@, "batchTx"),
                        !.xconnLog = Append(@, [msgs |-> txqueue, ok |-> ~batchFails])]
    IN  IF ~batchFails
        THEN [s1 EXCEPT !.OutPkts = @ + Len(txqueue), !.OutBytes = @ + TotalLen(txqueue)]
        ELSE defaultTx([s1 EXCEPT !.xconnWriteError = BatchError], txqueue, fails)

\* UDPSession.tx
txSend(s, txqueue, batchFails, fails) ==
    IF s.xconn THEN batchTx(s, txqueue, batchFails, fails)
    ELSE defaultTx(s, txqueue, fails)

----------------------------------------------------------------------------
(* shardHeap: elements in slice order, marks the set of member sequences.  *)
(* decode calls Push and Pop on the heap directly (not heap.Push and       *)
(* heap.Pop), so elements is a stack: Pop removes the last one pushed.     *)

newShardHeap == [elements |-> <<>>, marks |-> {}]

\* Push that forgets to mark the sequence id
HeapPushUnmarked(h, pkt) ==
    [elements |-> Append(h.elements, pkt), marks |-> h.marks]

\* shardHeap.Push
HeapPush(h, pkt) ==
    [elements |-> Append(h.elements, pkt), marks |-> h.marks \cup {pkt.seq}]

HeapPop(h) ==
    LET n == Len(h.elements)
    IN  [elements |-> SubSeq(h.elements, 1, n - 1),
         marks |-> h.marks \ {h.elements[n].seq}]

\* HeapContains without the marks: it never finds a duplicate
HeapContainsNever(h, seqid) == FALSE

HeapContains(h, seqid) == seqid \in h.marks

----------------------------------------------------------------------------
(* fecDecoder *)

\* the nil pointer
Nil == [nil |-> TRUE]

\* newFECDecoder(dataShards, parityShards), for arguments below 2^31
newFECDecoder(dataShards, parityShards) ==
    IF dataShards <= 0 \/ parityShards <= 0 THEN Nil
    ELSE IF CodecNew(dataShards, parityShards).err THEN Nil
    ELSE
    [dataShards |-> dataShards,
     parityShards |-> parityShards,
     shardSize |-> dataShards + parityShards,
     shardSet |-> [id \in {} |-> newShardHeap],
     minShardId |-> 0,
     codec |-> CodecNew(dataShards, parityShards),
     cacheLen |-> dataShards + parityShards,
     pulses |-> NewPulses,
     shouldTune |-> FALSE]

getShardId(d, seqid) == U32DivInt(seqid, d.shardSize)

\* The data slots k < dataShards with shardsFlag[k] false, in slot order,
\* appended to the recovered list
RECURSIVE AppendUnflagged(_, _, _, _, _)
AppendUnflagged(rec, shards, shardsFlag, k, dataShards) ==
    IF k >= dataShards THEN rec
    ELSE AppendUnflagged(IF shardsFlag[k] THEN rec ELSE Append(rec, shards[k]),
                         shards, shardsFlag, k + 1, dataShards)

\* One pass of the loop `for shard.Len() > 0` of decode (lines 197-241):
\* pop a member into its slot, then classify the slots filled so far.
\* st = [heap, shards, isNil, shardsFlag, numDataShard, maxLen, recovered,
\*       errs, full, recCount, attempts, popped]
DrainStep(d, st) ==
    LET n == d.cacheLen
        pkt == st.heap.elements[Len(st.heap.elements)]
        slot == U32ModInt(pkt.seq, d.shardSize)
        shards1 == [st.shards EXCEPT ![slot] = pkt.data]
        isNil1 == [st.isNil EXCEPT ![slot] = FALSE]
        flag1 == [st.shardsFlag EXCEPT ![slot] = TRUE]
        num1 == IF pkt.flag = typeData THEN st.numDataShard + 1 ELSE st.numDataShard
        maxLen1 == Max(st.maxLen, Len(pkt.data))
        base == [st EXCEPT !.heap = HeapPop(st.heap),
                           !.shards = shards1, !.isNil = isNil1,
                           !.shardsFlag = flag1, !.numDataShard = num1,
                           !.maxLen = maxLen1,
                           !.popped = Append(st.popped, pkt)]
        \* make the bytes length of each shard equal
        shards2 == [k \in 0..(n - 1) |->
                       IF ~isNil1[k] THEN Pad(shards1[k], maxLen1)
                       ELSE <<>>]
        isNil2 == [k \in 0..(n - 1) |->
                       IF ~isNil1[k] THEN FALSE
                       ELSE IF k < d.dataShards THEN FALSE ELSE TRUE]
        rs == CodecReconstructData(d.codec, shards2, n)
        rec2 == IF rs.err THEN st.recovered
                ELSE AppendUnflagged(st.recovered, rs.shards, flag1, 0, d.dataShards)
    IN  IF num1 = d.dataShards
        THEN [base EXCEPT !.full = st.full + 1]
        ELSE [base EXCEPT !.shards = rs.shards, !.isNil = isNil2,
                          !.recovered = rec2,
                          !.errs = IF rs.err THEN st.errs + 1 ELSE st.errs,
                          !.attempts = st.attempts + 1,
                          !.recCount = st.recCount + Len(rec2)]

RECURSIVE DrainLoop(_, _)
DrainLoop(d, st) ==
    IF Len(st.heap.elements) = 0 THEN st ELSE DrainLoop(d, DrainStep(d, st))

\* the drain starting only above dataShards members
DrainAbove(d, heap) ==
    LET n == d.cacheLen
        st0 == [heap |-> heap,
                shards |-> [k \in 0..(n - 1) |-> <<>>],
                isNil |-> [k \in 0..(n - 1) |-> TRUE],
                shardsFlag |-> [k \in 0..(n - 1) |-> FALSE],
                numDataShard |-> 0, maxLen |-> 0, recovered |-> <<>>,
                errs |-> 0, full |-> 0, recCount |-> 0, attempts |-> 0,
                popped |-> <<>>]
    IN  IF Len(heap.elements) > d.dataShards THEN DrainLoop(d, st0) ELSE st0

\* lines 187-242 of decode: what happens to a shard set after the push
Drain(d, heap) ==
    LET n == d.cacheLen
        st0 == [heap |-> heap,
                shards |-> [k \in 0..(n - 1) |-> <<>>],
                isNil |-> [k \in 0..(n - 1) |-> TRUE],
                shardsFlag |-> [k \in 0..(n - 1) |-> FALSE],
                numDataShard |-> 0, maxLen |-> 0, recovered |-> <<>>,
                errs |-> 0, full |-> 0, recCount |-> 0, attempts |-> 0,
                popped |-> <<>>]
    IN  IF Len(heap.elements) >= d.dataShards THEN DrainLoop(d, st0) ELSE st0

\* flushShards that retains one group more
flushShardsLate(shardSet, minShardId) ==
    LET keep == {id \in DOMAIN shardSet : ~(timediff(minShardId, id) > maxShardSets + 1)}
    IN  [id \in keep |-> shardSet[id]]

\* fecDecoder.flushShards: the shard sets that stay tracked
flushShards(shardSet, minShardId) ==
    LET keep == {id \in DOMAIN shardSet : ~(timediff(minShardId, id) > maxShardSets)}
    IN  [id \in keep |-> shardSet[id]]

\* lines 131-139 of decode: the packet's type disagrees with its position
Mismatch(d, in) ==
    IF U32ModInt(in.seq, d.shardSize) < d.dataShards
    THEN in.flag # typeData
    ELSE in.flag # typeParity

\* the Retuning branch discarding the shard sets whatever the periods are
RetuneResync(d) == [d EXCEPT !.shardSet = [id \in {} |-> newShardHeap]]

\* the Retuning branch starting the floor again at 0 when it reconfigures
RetuneRebase(d) ==
    LET autoDS == FindPeriod(d.pulses, TRUE)
        autoPS == FindPeriod(d.pulses, FALSE)
        codec == CodecNew(autoDS, autoPS)
        d1 == [d EXCEPT !.dataShards = autoDS, !.parityShards = autoPS,
                        !.shardSize = autoDS + autoPS,
                        !.shardSet = [id \in {} |-> newShardHeap],
                        !.minShardId = 0]
    IN  IF autoDS > 0 /\ autoPS > 0 /\ autoDS < 256 /\ autoPS < 256
        THEN IF codec.err THEN d1
             ELSE [d1 EXCEPT !.codec = codec, !.cacheLen = autoDS + autoPS,
                             !.shouldTune = FALSE]
        ELSE d

\* lines 141-161 of decode: the decoder after the Retuning branch
Retune(d) ==
    LET autoDS == FindPeriod(d.pulses, TRUE)
        autoPS == FindPeriod(d.pulses, FALSE)
        codec == CodecNew(autoDS, autoPS)
        d1 == [d EXCEPT !.dataShards = autoDS, !.parityShards = autoPS,
                        !.shardSize = autoDS + autoPS,
                        !.shardSet = [id \in {} |-> newShardHeap]]
    IN  IF autoDS > 0 /\ autoPS > 0 /\ autoDS < 256 /\ autoPS < 256
        THEN IF codec.err THEN d1
             ELSE [d1 EXCEPT !.codec = codec, !.cacheLen = autoDS + autoPS,
                             !.shouldTune = FALSE]
        ELSE d

\* the late check letting every packet through
IsLateNever(minShardId, shardId) == FALSE

\* line 164 of decode: the packet's group is older than the floor
IsLate(minShardId, shardId) == timediff(shardId, minShardId) < 0

\* the floor left where it is
NewFloorStuck(minShardId, shardId) == minShardId

\* the floor update with the comparison reversed
NewFloorReversed(minShardId, shardId) ==
    IF timediff(shardId, minShardId) < 0 THEN shardId ELSE minShardId

\* lines 244-247 of decode: the floor after a packet of group shardId was
\* accepted
NewFloor(minShardId, shardId) ==
    IF timediff(shardId, minShardId) > 0 THEN shardId ELSE minShardId

\* the head of decode sampling Data-tagged packets only
SampleInDataOnly(d, in) ==
    IF in.flag = typeData
    THEN [d EXCEPT !.pulses = Sample(d.pulses, TRUE, in.seq)]
    ELSE d

\* lines 125-129 of decode: the packet is sampled
SampleIn(d, in) ==
    IF in.flag = typeData
    THEN [d EXCEPT !.pulses = Sample(d.pulses, TRUE, in.seq)]
    ELSE [d EXCEPT !.pulses = Sample(d.pulses, FALSE, in.seq)]

\* fecDecoder.decode(in): [dec, snmp, recovered, drained, pushed, attempts],
\* the decoder and counters after the call, the list it returns, the
\* members it drained, whether it stored the packet and the
\* reconstructions it attempted
decode(d, sn, in) ==
    LET d0 == SampleIn(d, in)
        d1 == [d0 EXCEPT !.shouldTune = d.shouldTune \/ Mismatch(d, in)]
        shardId == getShardId(d1, in.seq)
        known == shardId \in DOMAIN d1.shardSet
        shard == IF known THEN d1.shardSet[shardId] ELSE newShardHeap
        sn1 == IF known THEN sn ELSE [sn EXCEPT !.FECShardSet = sn.FECShardSet + 1]
        set1 == [id \in DOMAIN d1.shardSet \cup {shardId} |->
                    IF id = shardId THEN shard ELSE d1.shardSet[id]]
        sn2 == IF in.flag = typeParity
               THEN [sn1 EXCEPT !.FECParityShards = sn1.FECParityShards + 1]
               ELSE sn1
        pushed == HeapPush(shard, in)
        st == Drain(d1, pushed)
        set2 == [set1 EXCEPT ![shardId] = st.heap]
        sn3 == [sn2 EXCEPT !.FECFullShardSet = sn2.FECFullShardSet + st.full,
                           !.FECErrs = sn2.FECErrs + st.errs,
                           !.FECRecovered = sn2.FECRecovered + st.recCount]
        min1 == NewFloor(d1.minShardId, shardId)
        sn4 == IF min1 # d1.minShardId
               THEN [sn3 EXCEPT !.FECShardMin = min1] ELSE sn3
        set3 == flushShards(set2, min1)
        none == [recovered |-> <<>>, drained |-> <<>>, pushed |-> FALSE, attempts |-> 0]
    IN  IF d1.shouldTune
        THEN [dec |-> Retune(d1), snmp |-> sn] @@ none
        ELSE IF IsLate(d1.minShardId, shardId)
        THEN [dec |-> d1, snmp |-> sn] @@ none
        ELSE IF HeapContains(shard, in.seq)
        THEN [dec |-> [d1 EXCEPT !.shardSet = set1], snmp |-> sn1] @@ none
        ELSE [dec |-> [d1 EXCEPT !.shardSet = set3, !.minShardId = min1],
              snmp |-> [sn4 EXCEPT !.FECShardSet = Cardinality(DOMAIN set3)],
              recovered |-> st.recovered,
              drained |-> st.popped,
              pushed |-> TRUE,
              attempts |-> st.attempts]

NewSnmp ==
    [FECErrs |-> 0, FECFullShardSet |-> 0, FECRecovered |-> 0,
     FECParityShards |-> 0, FECShardSet |-> 0, FECShardMin |-> 0]

----------------------------------------------------------------------------
(* fecEncoder.  A packet buffer is modelled from payloadOffset on: the     *)
(* bytes the codec covers.  shardCache[k] holds that region of slot k.     *)

\* newFECEncoder with the ceiling left at the largest uint32
newFECEncoderMaxPaws(dataShards, parityShards, offset) ==
    LET shardSize == dataShards + parityShards
    IN  [dataShards |-> dataShards,
         parityShards |-> parityShards,
         shardSize |-> shardSize,
         paws |-> MaxU32,
         next |-> U32(0),
         shardCount |-> 0,
         maxSize |-> 0,
         headerOffset |-> offset,
         payloadOffset |-> offset + fecHeaderSize,
         shardCache |-> [k \in 0..(shardSize - 1) |-> <<>>],
         tsLatestPacket |-> 0,
         codec |-> CodecNew(dataShards, parityShards)]

\* newFECEncoder(dataShards, parityShards, offset), for arguments below 2^31
newFECEncoder(dataShards, parityShards, offset) ==
    LET shardSize == dataShards + parityShards
    IN  IF dataShards <= 0 \/ parityShards <= 0 THEN Nil
        ELSE IF CodecNew(dataShards, parityShards).err THEN Nil
        ELSE
        [dataShards |-> dataShards,
         parityShards |-> parityShards,
         shardSize |-> shardSize,
         paws |-> U32MulInt(U32DivInt(MaxU32, shardSize), shardSize),
         next |-> U32(0),
         shardCount |-> 0,
         maxSize |-> 0,
         headerOffset |-> offset,
         payloadOffset |-> offset + fecHeaderSize,
         shardCache |-> [k \in 0..(shardSize - 1) |-> <<>>],
         tsLatestPacket |-> 0,
         codec |-> CodecNew(dataShards, parityShards)]

\* a run-time panic in place of a result
Panic == [panic |-> TRUE]

\* newFECDecoder(dataShards, parityShards) over the whole range of int.
\* reedsolomon.New refuses more than 256 shards.
newFECDecoder64(dataShards, parityShards) ==
    LET shardSize == Int64Add(dataShards, parityShards)
    IN  IF Int64LeZero(dataShards) \/ Int64LeZero(parityShards) THEN Nil
        ELSE IF shardSize.hi # 0 THEN Nil
        ELSE newFECDecoder(dataShards.lo, parityShards.lo)

\* newFECEncoder(dataShards, parityShards, offset) over the whole range of
\* int.  Line 303 divides by uint32(enc.shardSize) before the codec is
\* built: an integer division by zero panics.
newFECEncoder64(dataShards, parityShards, offset) ==
    LET shardSize == Int64Add(dataShards, parityShards)
    IN  IF Int64LeZero(dataShards) \/ Int64LeZero(parityShards) THEN Nil
        ELSE IF Uint32Of(shardSize) = U32(0) THEN Panic
        ELSE IF shardSize.hi # 0 THEN Nil
        ELSE newFECEncoder(dataShards.lo, parityShards.lo, offset)

\* the increment without the PAWS ceiling: the counter wraps at 2^32
SealNextNoPaws(e) == U32AddInt(e.next, 1)

\* the increment of sealData and of sealParity
SealNext(e) == U32ModU32(U32AddInt(e.next, 1), e.paws)

\* skipParity advancing by the number of data shards
skipParityByData(e) == [e EXCEPT !.next = U32ModU32(U32AddInt(e.next, e.dataShards), e.paws)]

\* skipParity that leaves the sequence counter alone
skipParityNot(e) == e

\* fecEncoder.skipParity
skipParity(e) == [e EXCEPT !.next = U32ModU32(U32AddInt(e.next, e.parityShards), e.paws)]

\* the staleness test that lets every cycle through
ContinuousAlways(now, ts, rto) == TRUE

\* line 346 of encode: the data is continuous
Continuous(now, ts, rto) == now - ts < rto

RECURSIVE SealParities(_, _, _, _)
\* lines 362-366 of encode: seal parity slots k..shardSize-1 in order;
\* [enc, ps] with ps the packets sealed so far
SealParities(e, parity, k, ps) ==
    IF k >= e.shardSize THEN [enc |-> e, ps |-> ps]
    ELSE SealParities([e EXCEPT !.next = SealNext(e),
                                !.shardCache[k] = parity[k]],
                      parity, k + 1,
                      Append(ps, [seq |-> e.next, flag |-> typeParity,
                                  data |-> parity[k]]))

\* fecEncoder.encode(b, rto) at wall-clock time now, b's bytes from
\* payloadOffset on being payload; codecOk is whether codec.Encode succeeds.
\* [enc, data, ps, errs]: the encoder after the call, the sealed data
\* packet, the parity packets returned, the increment of FECErrs
encode(e, payload, rto, now, codecOk) ==
    LET data == [seq |-> e.next, flag |-> typeData, data |-> payload]
        sz == e.payloadOffset + Len(payload)
        e1 == [e EXCEPT !.next = SealNext(e),
                        !.shardCache[e.shardCount] = payload,
                        !.shardCount = e.shardCount + 1,
                        !.maxSize = Max(e.maxSize, sz)]
        size == e1.maxSize - e1.payloadOffset
        padded == [k \in 0..(e1.dataShards - 1) |-> Pad(e1.shardCache[k], size)]
        e2 == [e1 EXCEPT !.shardCache =
                   [k \in 0..(e1.shardSize - 1) |->
                       IF k < e1.dataShards THEN padded[k] ELSE e1.shardCache[k]]]
        sealed == SealParities(e2, CodecEncode(e2.codec, padded, size),
                               e2.dataShards, <<>>)
        done(x) == [x EXCEPT !.shardCount = 0, !.maxSize = 0, !.tsLatestPacket = now]
    IN  IF e1.shardCount = e1.dataShards
        THEN IF Continuous(now, e.tsLatestPacket, rto)
             THEN IF codecOk
                  THEN [enc |-> done(sealed.enc), data |-> data,
                        ps |-> sealed.ps, errs |-> 0]
                  ELSE [enc |-> done(skipParity(e2)), data |-> data,
                        ps |-> <<>>, errs |-> 1]
             ELSE [enc |-> done(skipParity(e1)), data |-> data,
                   ps |-> <<>>, errs |-> 0]
        ELSE [enc |-> [e1 EXCEPT !.tsLatestPacket = now], data |-> data,
              ps |-> <<>>, errs |-> 0]

----------------------------------------------------------------------------
(* The traffic: what an encoder of a given geometry emits.                 *)

Geometries ==
    {g \in (1..MaxData) \X (1..MaxShards) : g[1] + g[2] <= MaxShards}

\* the payload the sender frames under sequence id seq: one or two
\* non-zero bytes, so that the shards of a group differ in length
OrigPayload(seq) ==
    [j \in 1..(1 + U32ModInt(seq, 2)) |-> 1 + ((U32ModInt(seq, 6) + j) % 6)]

RECURSIVE EmitStream(_, _, _)
\* what encoder e sends in n encode calls in quick succession: each data
\* packet followed by the parity packets encode returned with it
EmitStream(e, n, out) ==
    IF n = 0 THEN out
    ELSE LET r == encode(e, OrigPayload(e.next), 1, 0, TRUE)
         IN  EmitStream(r.enc, n - 1, out \o <<r.data>> \o r.ps)

\* the packets of groups 0..n-1 of the stream of a fresh encoder of
\* geometry g
StreamPackets(g, n) == EmitStream(newFECEncoder(g[1], g[2], 0), n * g[1], <<>>)

\* the packets of n groups of the stream of an encoder of geometry g that
\* is k groups before its PAWS ceiling: k groups before the wrap, then
\* the groups that start again at sequence 0
WrapStreamPackets(g, k, n) ==
    LET e == newFECEncoder(g[1], g[2], 0)
    IN  EmitStream([e EXCEPT !.next = U32SubInt(e.paws, k * e.shardSize)],
                   n * g[1], <<>>)

NoPacket == [seq |-> U32(0), flag |-> 0, data |-> <<>>]
NoCall == [in |-> NoPacket, pushed |-> FALSE, drained |-> <<>>, attempts |-> 0,
           len |-> 0, panicked |-> FALSE]
NoEncOut == [data |-> NoPacket, ps |-> <<>>, cycleStart |-> U32(0), first |-> TRUE,
             last |-> FALSE, fresh |-> FALSE, codecOk |-> TRUE]

----------------------------------------------------------------------------
(* fecPacket: a packet as the byte sequence decode is given.               *)

\* binary.LittleEndian.PutUint32 / PutUint16
LE32(v) == <<v.lo % 256, v.lo \div 256, v.hi % 256, v.hi \div 256>>
LE16(n) == <<n % 256, n \div 256>>

\* the bytes of a sealed packet from headerOffset on: sequence id, type,
\* payload
Wire(pkt) == LE32(pkt.seq) \o LE16(pkt.flag) \o pkt.data

\* fecPacket.seqid, flag, data on a packet of at least fecHeaderSize bytes
fecSeqid(fec) == [hi |-> fec[3] + 256 * fec[4], lo |-> fec[1] + 256 * fec[2]]
fecFlag(fec) == fec[5] + 256 * fec[6]
fecData(fec) == SubSeq(fec, 7, Len(fec))

\* fecPacket.flag() = binary.LittleEndian.Uint16(fec[4:]) panics at run
\* time when fec has fewer than 6 bytes: the slice expression for fewer
\* than 4, the index of Uint16 for 4 or 5
flagPanics(fec) == Len(fec) < 6

\* fecDecoder.decode(in) on the bytes in.  Line 125 evaluates in.flag()
\* before anything else; a panic there ends the call with the decoder as
\* it was.
decodeBytes(d, sn, in) ==
    IF flagPanics(in)
    THEN [dec |-> d, snmp |-> sn, recovered |-> <<>>, drained |-> <<>>,
          pushed |-> FALSE, attempts |-> 0, panicked |-> TRUE]
    ELSE decode(d, sn, [seq |-> fecSeqid(in), flag |-> fecFlag(in), data |-> fecData(in)])
            @@ [panicked |-> FALSE]

----------------------------------------------------------------------------
(* Specifications *)

\* decode(in) is called
Feed(in) ==
    LET r == decode(dec, snmp, in)
    IN  /\ dec' = r.dec
        /\ snmp' = r.snmp
        /\ recovered' = r.recovered
        /\ last' = [in |-> in, pushed |-> r.pushed, drained |-> r.drained,
                    attempts |-> r.attempts,
                    len |-> fecHeaderSize + Len(in.data), panicked |-> FALSE]
        /\ calls' = calls + 1

\* a fresh decoder of geometry g about to receive packets of a sender of
\* geometry s
DecoderStart(g, s, packets) ==
    /\ dec = newFECDecoder(g[1], g[2])
    /\ sender = s
    /\ net = packets
    /\ cursor = 0
    /\ recovered = <<>>
    /\ last = NoCall
    /\ trace = <<>>
    /\ calls = 0
    /\ snmp = NewSnmp

DecoderInit(g, s, n) == DecoderStart(g, s, StreamPackets(s, n))

NoMade == [dataShards |-> Int64(1), parityShards |-> Int64(1), offset |-> 0,
           dec |-> newFECDecoder(1, 1), enc |-> newFECEncoder(1, 1, 0)]

NoTuneIn == [pattern |-> <<1, 1>>, next |-> 0]
NoRbOut == [op |-> "none", arg |-> 0, value |-> 0, ok |-> FALSE, nil |-> FALSE,
            len |-> 0, seen |-> <<>>, was |-> newRing(1)]
NoRbCount == [pushes |-> 0, removed |-> 0, ops |-> 0]

\* the components the specification at hand does not exercise
MadeIdle == made = NoMade
TuneIdle == tune = NewPulses /\ tuneIn = NoTuneIn
RingIdle == rb = newRing(1) /\ rbOut = NoRbOut /\ rbCount = NoRbCount
TimerIdle == tm = NewTimer(1, TRUE)
SessIdle == sess = newUDPSession /\ txIn = NoTxCall
AuxIdle == MadeIdle /\ TuneIdle /\ RingIdle /\ TimerIdle /\ SessIdle

EncoderOnly ==
    /\ enc = newFECEncoder(1, 1, 0)
    /\ encOut = NoEncOut
    /\ encCalls = 0

EncoderIdle == AuxIdle /\ EncoderOnly

FecIdle == DecoderInit(<<1, 1>>, <<1, 1>>, 0) /\ EncoderOnly

(* SpecGroup: a fresh decoder is fed packets of group 0 of an encoder of   *)
(* its own geometry, in any order and with repetition.                     *)
InitGroup == \E g \in Geometries : DecoderInit(g, g, 1) /\ EncoderIdle

FeedGroup ==
    /\ calls < MaxFeeds
    /\ \E i \in 1..Len(net) :
          /\ Feed(net[i])
          /\ trace' = Append(trace, [in |-> net[i], out |-> recovered',
                                     errs |-> snmp'.FECErrs - snmp.FECErrs,
                                     full |-> snmp'.FECFullShardSet - snmp.FECFullShardSet,
                                     pushed |-> last'.pushed,
                                     attempts |-> last'.attempts])
    /\ UNCHANGED <<sender, net, cursor, encVars, auxVars>>

NextGroup == FeedGroup

SpecGroup == InitGroup /\ [][NextGroup]_vars

(* SpecDec: a decoder is fed the stream of an encoder.  The network loses  *)
(* up to MaxSkip packets in a row, delivers a packet up to MaxReorder      *)
(* positions late and repeats packets at will; the decoder may have been   *)
(* configured with another geometry than the sender's.                     *)
SenderGeometry == <<2, 1>>
ReceiverGeometries == {<<2, 1>>, <<1, 2>>}

InitDec ==
    \E g \in ReceiverGeometries : DecoderInit(g, SenderGeometry, NumGroups) /\ EncoderIdle

FeedStream ==
    /\ calls < MaxCalls
    /\ \E i \in 1..Len(net) :
          /\ cursor - MaxReorder <= i
          /\ i <= cursor + MaxSkip + 1
          /\ Feed(net[i])
          /\ cursor' = Max(cursor, i)
    /\ UNCHANGED <<trace, sender, net, encVars, auxVars>>

NextDec == FeedStream

SpecDec == InitDec /\ [][NextDec]_vars

(* SpecLate: as SpecDec, and the network may at any time deliver a        *)
(* delayed copy of a packet of the stream's first group.                  *)
FeedLate ==
    /\ calls < MaxCalls
    /\ \E i \in 1..Len(net) :
          /\ cursor - MaxReorder <= i \/ i <= sender[1] + sender[2]
          /\ i <= cursor + MaxSkip + 1
          /\ Feed(net[i])
          /\ cursor' = Max(cursor, i)
    /\ UNCHANGED <<trace, sender, net, encVars, auxVars>>

NextLate == FeedLate

SpecLate == InitDec /\ [][NextLate]_vars

(* SpecNew: the constructors are called with shard counts around the     *)
(* limits of their argument checks and of the codec.                      *)
ShardCounts ==
    {Int64(n) : n \in ((0 - 1)..MaxData) \cup {128, 255, 256}}
        \cup {[hi |-> W16 - 1, lo |-> W16 - 1], [hi |-> W16, lo |-> 0]}

InitNew ==
    /\ DecoderInit(<<1, 1>>, <<1, 1>>, 0)
    /\ EncoderIdle

Construct ==
    /\ \E d \in ShardCounts, p \in ShardCounts, offset \in {0, fecHeaderSize + 2} :
          made' = [dataShards |-> d, parityShards |-> p, offset |-> offset,
                   dec |-> newFECDecoder64(d, p),
                   enc |-> newFECEncoder64(d, p, offset)]
    /\ UNCHANGED <<decVars, encVars, snmp, tuneVars, ringVars, tm, sess, txIn>>

NextNew == Construct

SpecNew == InitNew /\ [][NextNew]_vars

(* SpecPulse: an autoTune samples a fully consecutive stream starting at  *)
(* sequence 0 whose tags repeat d Data then p Parity, until the log is    *)
(* full.                                                                   *)
Patterns ==
    ((1..MaxPeriodData) \cup {126, 127}) \X (1..MaxPeriodParity)

InitPulse ==
    /\ FecIdle /\ MadeIdle /\ RingIdle /\ TimerIdle /\ SessIdle
    /\ tune = NewPulses
    /\ \E g \in Patterns : tuneIn = [pattern |-> g, next |-> 0]

SamplePattern ==
    /\ tuneIn.next < MaxAutoTuneSamples
    /\ LET d == tuneIn.pattern[1]
           p == tuneIn.pattern[2]
       IN  tune' = Sample(tune, (tuneIn.next % (d + p)) < d, U32(tuneIn.next))
    /\ tuneIn' = [tuneIn EXCEPT !.next = tuneIn.next + 1]
    /\ UNCHANGED <<decVars, encVars, snmp, made, ringVars, tm, sess, txIn>>

NextPulse == SamplePattern

SpecPulse == InitPulse /\ [][NextPulse]_vars

(* SpecSample: an autoTune samples pulses with increasing sequence ids,   *)
(* some ids missing, each tagged at will.                                  *)
InitSample ==
    /\ FecIdle /\ MadeIdle /\ RingIdle /\ TimerIdle /\ SessIdle
    /\ TuneIdle

SampleAny ==
    /\ Cardinality(DOMAIN tune) < MaxSamples
    /\ \E n \in tuneIn.next..(tuneIn.next + 1), bit \in BOOLEAN :
          /\ tune' = Sample(tune, bit, U32(n))
          /\ tuneIn' = [tuneIn EXCEPT !.next = n + 1]
    /\ UNCHANGED <<decVars, encVars, snmp, made, ringVars, tm, sess, txIn>>

NextSample == SampleAny

SpecSample == InitSample /\ [][NextSample]_vars

(* SpecAnchor: an autoTune whose slot 0 holds a multiple of 256 (0 at     *)
(* construction, k * 256 after the samples 256, 512, ..., k * 256) is     *)
(* given samples around the ends of its window, the last window of the   *)
(* 32-bit sequence space included.                                        *)
TopAnchor == [hi |-> W16 - 1, lo |-> W16 - MaxAutoTuneSamples]

Anchors == {U32(0), U32(MaxAutoTuneSamples), TopAnchor}

NearSeqs ==
    {U32AddInt(a, k) : a \in Anchors, k \in {0, 1, MaxAutoTuneSamples, MaxAutoTuneSamples + 1}}
        \cup {U32SubInt(a, 1) : a \in Anchors \ {U32(0)}}
        \cup {MaxU32}

InitAnchor ==
    /\ FecIdle /\ MadeIdle /\ RingIdle /\ TimerIdle /\ SessIdle
    /\ \E a \in Anchors :
          tune = IF a = U32(0) THEN NewPulses
                 ELSE (0 :> [bit |-> FALSE, seq |-> a])
    /\ tuneIn = [pattern |-> <<1, 1>>, next |-> 0, bit |-> FALSE, seq |-> U32(0),
                 was |-> NewPulses]

SampleNear ==
    /\ tuneIn.next < MaxAnchorCalls
    /\ \E seq \in NearSeqs, bit \in BOOLEAN :
          /\ tune' = Sample(tune, bit, seq)
          /\ tuneIn' = [tuneIn EXCEPT !.next = tuneIn.next + 1, !.bit = bit,
                                      !.seq = seq, !.was = tune]
    /\ UNCHANGED <<decVars, encVars, snmp, made, ringVars, tm, sess, txIn>>

NextAnchor == SampleNear

SpecAnchor == InitAnchor /\ [][NextAnchor]_vars

(* SpecRing: a RingBuffer of any small initial size is pushed the values  *)
(* 1, 2, 3, ... and popped, peeked and discarded from in any order.        *)
InitRing ==
    /\ FecIdle /\ MadeIdle /\ TuneIdle /\ TimerIdle /\ SessIdle
    /\ \E n \in 1..MaxRingCap : rb = newRing(n)
    /\ rbOut = NoRbOut
    /\ rbCount = NoRbCount

\* one operation: its argument, the buffer it leaves, what it returned
\* (Peek: also whether the pointer is nil), the elements its callback was
\* given, and the buffer it was called on
RingOp(op, arg, r, ret, seen, pushed, removed) ==
    /\ rbCount.ops < MaxRingOps
    /\ rb' = r
    /\ rbOut' = [op |-> op, arg |-> arg, value |-> ret.value, ok |-> ret.ok,
                 nil |-> ret.nil, len |-> RingLen(r), seen |-> seen, was |-> rb]
    /\ rbCount' = [pushes |-> rbCount.pushes + pushed,
                   removed |-> rbCount.removed + removed,
                   ops |-> rbCount.ops + 1]
    /\ UNCHANGED <<decVars, encVars, snmp, made, tuneVars, tm, sess, txIn>>

PushOp ==
    /\ rbCount.pushes < MaxPushes
    /\ LET value == rbCount.pushes + 1
       IN  RingOp("Push", value, RingPush(rb, value),
                  [value |-> 0, ok |-> TRUE, nil |-> FALSE], <<>>, 1, 0)

PopOp ==
    LET r == RingPop(rb)
    IN  RingOp("Pop", 0, r.rb, [value |-> r.value, ok |-> r.ok, nil |-> FALSE],
               <<>>, 0, IF r.ok THEN 1 ELSE 0)

PeekOp ==
    RingOp("Peek", 0, rb, RingPeek(rb), <<>>, 0, 0)

DiscardOp ==
    \E n \in (0 - 1)..2 :
        LET r == RingDiscard(rb, n)
        IN  RingOp("Discard", n, r.rb, [value |-> r.n, ok |-> TRUE, nil |-> FALSE],
                   <<>>, 0, r.n)

\* the callback only reads the elements
ForEachOp ==
    \E stop \in 0..MaxStop :
        RingOp("ForEach", stop, rb, [value |-> 0, ok |-> TRUE, nil |-> FALSE],
               RingForEachUntil(rb, stop), 0, 0)

ForEachReverseOp ==
    \E stop \in 0..MaxStop :
        RingOp("ForEachReverse", stop, rb, [value |-> 0, ok |-> TRUE, nil |-> FALSE],
               RingForEachReverse(rb, stop), 0, 0)

NextRing ==
    PushOp \/ PopOp \/ PeekOp \/ DiscardOp \/ ForEachOp \/ ForEachReverseOp

SpecRing == InitRing /\ [][NextRing]_vars

(* SpecTimer: goroutines call Put, one function each, while the prepend   *)
(* goroutine and the seched goroutines of a Timer run, the clock advances *)
(* and Close may be called.  Each action is one step of one goroutine     *)
(* between two points where it can be interleaved with the others.        *)
InitTimer ==
    /\ FecIdle /\ MadeIdle /\ TuneIdle /\ RingIdle /\ SessIdle
    /\ \E parallel \in 1..MaxWorkers, sync \in BOOLEAN : tm = NewTimer(parallel, sync)

TimerStep(t) ==
    /\ tm' = t
    /\ UNCHANGED <<decVars, encVars, snmp, made, tuneVars, ringVars, sess, txIn>>

\* Put: the append under prependLock
PutAppend ==
    \E f \in 1..NumPuts, deadline \in 0..MaxDeadline :
        /\ tm.put[f] = "idle"
        /\ TimerStep([tm EXCEPT !.prependTasks = Append(@, f),
                                !.ts[f] = deadline,
                                !.open[f] = ~tm.closed,
                                !.put[f] = "notify"])

\* Put: the send on chPrependNotify that gives up when the channel is full
PutNotify ==
    \E f \in 1..NumPuts :
        /\ tm.put[f] = "notify"
        /\ TimerStep([tm EXCEPT !.chPrependNotify = TRUE,
                                !.skipped = @ \/ tm.chPrependNotify,
                                !.put[f] = "done"])

\* prepend: case <-t.chPrependNotify
PrependNotified ==
    /\ tm.prepend.pc = "select"
    /\ tm.chPrependNotify
    /\ TimerStep([tm EXCEPT !.chPrependNotify = FALSE, !.prepend.pc = "lock"])

\* prepend that leaves the tasks it copied in prependTasks
PrependCopyKeep ==
    /\ tm.prepend.pc = "lock"
    /\ TimerStep([tm EXCEPT !.prepend = [pc |-> IF tm.prependTasks = <<>>
                                                THEN "select" ELSE "send",
                                         tasks |-> tm.prependTasks]])

\* prepend: the copy and truncation of prependTasks under prependLock
PrependCopy ==
    /\ tm.prepend.pc = "lock"
    /\ TimerStep([tm EXCEPT !.prepend = [pc |-> IF tm.prependTasks = <<>>
                                                THEN "select" ELSE "send",
                                         tasks |-> tm.prependTasks],
                            !.prependTasks = <<>>])

\* prepend: t.chTask <- tasks[k], met by case task := <-t.chTask of one
\* seched goroutine, which handles the task
Dispatch ==
    \E w \in DOMAIN tm.seched :
        /\ tm.prepend.pc = "send"
        /\ tm.seched[w].pc = "select"
        /\ LET f == Head(tm.prepend.tasks)
               rest == Tail(tm.prepend.tasks)
               r == SchedTask(tm.seched[w], f, tm.ts, tm.now, tm.sync)
           IN  TimerStep([tm EXCEPT !.prepend = [pc |-> IF rest = <<>>
                                                       THEN "select" ELSE "send",
                                                tasks |-> rest],
                                   !.seched[w] = r.w,
                                   !.runs = Execute(@, r.ran)])

\* the runtime: the time.Timer of seched goroutine w expires
TimerFire(w) ==
    /\ w \in DOMAIN tm.seched
    /\ tm.seched[w].at # NoTime
    /\ tm.now >= tm.seched[w].at
    /\ TimerStep([tm EXCEPT !.seched[w].at = NoTime,
                            !.seched[w].fired =
                                IF tm.sync \/ @ = NoTime THEN tm.now ELSE @])

\* seched: case now := <-timer.C
SchedRecv(w) ==
    /\ w \in DOMAIN tm.seched
    /\ tm.seched[w].pc = "select"
    /\ tm.seched[w].fired # NoTime
    /\ LET r == SchedTimer(tm.seched[w], tm.ts, tm.now, tm.sync)
       IN  TimerStep([tm EXCEPT !.seched[w] = r.w, !.runs = Execute(@, r.ran)])

\* Timer.Close
Close ==
    /\ ~tm.closed
    /\ TimerStep([tm EXCEPT !.closed = TRUE])

\* prepend: case <-t.close, in either select
PrependExit ==
    /\ tm.closed
    /\ tm.prepend.pc \in {"select", "send"}
    /\ TimerStep([tm EXCEPT !.prepend.pc = "exit"])

\* seched: case <-t.close
SchedExit ==
    \E w \in DOMAIN tm.seched :
        /\ tm.closed
        /\ tm.seched[w].pc = "select"
        /\ TimerStep([tm EXCEPT !.seched[w].pc = "exit"])

\* the clock; past MaxTime and every deadline it runs only while a timer
\* waits for it
Tick ==
    /\ \/ tm.now < MaxTime
       \/ tm.now <= MaxDeadline
       \/ \E w \in DOMAIN tm.seched : tm.seched[w].at > tm.now
    /\ TimerStep([tm EXCEPT !.now = @ + 1])

NextTimer ==
    \/ PutAppend \/ PutNotify
    \/ PrependNotified \/ PrependCopy \/ Dispatch
    \/ \E w \in 1..MaxWorkers : TimerFire(w)
    \/ \E w \in 1..MaxWorkers : SchedRecv(w)
    \/ Close \/ PrependExit \/ SchedExit
    \/ Tick

SpecTimer == InitTimer /\ [][NextTimer]_vars

\* a goroutine that can take a step takes one, a timer due expires, the
\* clock runs; nothing makes Put or Close be called, or a goroutine choose
\* the close case of its select
FairTimer ==
    /\ WF_vars(PutNotify)
    /\ WF_vars(PrependNotified)
    /\ WF_vars(PrependCopy)
    /\ WF_vars(Dispatch)
    /\ \A w \in 1..MaxWorkers : WF_vars(TimerFire(w)) /\ WF_vars(SchedRecv(w))
    /\ WF_vars(Tick)

SpecTimerLive == SpecTimer /\ FairTimer

(* SpecTx: a session is given queues to send, with or without a batch    *)
(* connection, over connections whose writes fail at will.                *)
Queues ==
    UNION {{[k \in 1..n |-> [id |-> k, len |-> size[k]]] :
               size \in [1..n -> 1..MaxMsgLen]} : n \in 0..MaxQueue}

InitTx ==
    /\ FecIdle /\ MadeIdle /\ TuneIdle /\ RingIdle /\ TimerIdle
    /\ sess = newUDPSession
    /\ txIn = NoTxCall

\* sess.xconn is set by the caller, then tx(txqueue) runs
TxCall ==
    \E xconn \in BOOLEAN, txqueue \in Queues, batchFails \in BOOLEAN :
      \E fails \in SUBSET (1..Len(txqueue)) :
        /\ txIn.n < MaxTxCalls
        /\ xconn \/ ~batchFails
        /\ LET s == [sess EXCEPT !.xconn = xconn, !.conn = <<>>, !.xconnLog = <<>>,
                                 !.notified = <<>>, !.called = <<>>]
           IN  /\ sess' = txSend(s, txqueue, batchFails, fails)
               /\ txIn' = [n |-> txIn.n + 1, txqueue |-> txqueue,
                           xconn |-> xconn, batchFails |-> batchFails,
                           fails |-> fails, was |-> s]
        /\ UNCHANGED <<decVars, encVars, snmp, made, tuneVars, ringVars, tm>>

NextTx == TxCall

SpecTx == InitTx /\ [][NextTx]_vars

(* SpecRaw: a fresh decoder is given packets of group 0 of an encoder of  *)
(* its own geometry as byte sequences, whole or cut short by the network. *)
(* A panic ends the process: no call follows it.                          *)
InitRaw == \E g \in Geometries : DecoderInit(g, g, 1) /\ EncoderIdle

FeedRaw ==
    /\ calls < MaxRawCalls
    /\ ~last.panicked
    /\ \E i \in 1..Len(net) :
          \E n \in (0..fecHeaderSize) \cup {Len(Wire(net[i]))} :
             LET in == SubSeq(Wire(net[i]), 1, n)
                 r == decodeBytes(dec, snmp, in)
             IN  /\ dec' = r.dec
                 /\ snmp' = r.snmp
                 /\ recovered' = r.recovered
                 /\ last' = [in |-> IF r.panicked THEN NoPacket
                                    ELSE [seq |-> fecSeqid(in), flag |-> fecFlag(in),
                                          data |-> fecData(in)],
                             pushed |-> r.pushed, drained |-> r.drained,
                             attempts |-> r.attempts,
                             len |-> n, panicked |-> r.panicked]
    /\ calls' = calls + 1
    /\ UNCHANGED <<trace, sender, net, cursor, encVars, auxVars>>

NextRaw == FeedRaw

SpecRaw == InitRaw /\ [][NextRaw]_vars

(* SpecTune: a decoder is given packets with increasing sequence ids,     *)
(* some ids missing, each tagged Data or Parity at will: the traffic of a  *)
(* sender whose geometry is unknown or changes.                            *)
InitTune ==
    \E g \in ReceiverGeometries : DecoderStart(g, SenderGeometry, <<>>) /\ EncoderIdle

FeedTagged ==
    /\ calls < MaxTuneCalls
    /\ \E n \in cursor..(cursor + 1), flag \in {typeData, typeParity} :
          /\ Feed([seq |-> U32(n), flag |-> flag, data |-> OrigPayload(U32(n))])
          /\ cursor' = n + 1
    /\ UNCHANGED <<trace, sender, net, encVars, auxVars>>

NextTune == FeedTagged

SpecTune == InitTune /\ [][NextTune]_vars

(* SpecWrap: a decoder of the sender's geometry is fed, by the same       *)
(* network, the stream of an encoder whose sequence counter wraps.         *)
InitWrap ==
    /\ \E k \in 1..WrapGroups :
          DecoderStart(SenderGeometry, SenderGeometry,
                       WrapStreamPackets(SenderGeometry, k, NumGroups))
    /\ EncoderIdle

SpecWrap == InitWrap /\ [][NextDec]_vars

(* SpecEnc: an encoder, fresh or a few groups before its sequence counter  *)
(* wraps, is given packets at arbitrary wall-clock times with arbitrary    *)
(* staleness thresholds; the payloads are those of the traffic above.     *)
InitEnc ==
    /\ DecoderInit(<<1, 1>>, <<1, 1>>, 0)
    /\ AuxIdle
    /\ encOut = NoEncOut
    /\ encCalls = 0
    /\ \E g \in Geometries :
          LET e == newFECEncoder(g[1], g[2], 0)
          IN  \/ enc = e
              \/ \E k \in 1..WrapGroups, ts \in 0..MaxNow :
                    enc = [e EXCEPT !.next = U32SubInt(e.paws, k * e.shardSize),
                                    !.tsLatestPacket = ts]

EncodeCall ==
    /\ encCalls < MaxEncodes
    /\ \E rto \in 0..(MaxNow + 1), now \in 0..MaxNow, codecOk \in BOOLEAN :
          LET r == encode(enc, OrigPayload(enc.next), rto, now, codecOk)
          IN  /\ enc' = r.enc
              /\ encOut' = [data |-> r.data, ps |-> r.ps,
                            cycleStart |-> IF enc.shardCount = 0 THEN enc.next
                                           ELSE encOut.cycleStart,
                            first |-> enc.shardCount = 0,
                            last |-> enc.shardCount + 1 = enc.dataShards,
                            fresh |-> now - enc.tsLatestPacket < rto,
                            codecOk |-> codecOk]
              /\ snmp' = [snmp EXCEPT !.FECErrs = snmp.FECErrs + r.errs]
    /\ encCalls' = encCalls + 1
    /\ UNCHANGED <<decVars, auxVars>>

NextEnc == EncodeCall

SpecEnc == InitEnc /\ [][NextEnc]_vars

(* SpecLink: an encoder, fresh or a group before its sequence counter    *)
(* wraps, encodes packets at arbitrary times, and a decoder constructed   *)
(* with the same geometry is given any packet sent so far, any number of  *)
(* times, in any order.                                                   *)
LinkGeometries == {<<2, 1>>, <<1, 2>>}

InitLink ==
    /\ AuxIdle
    /\ encOut = NoEncOut
    /\ encCalls = 0
    /\ \E g \in LinkGeometries :
          /\ DecoderStart(g, g, <<>>)
          /\ LET e == newFECEncoder(g[1], g[2], 0)
             IN  \/ enc = e
                 \/ \E k \in 1..WrapGroups :
                       enc = [e EXCEPT !.next = U32SubInt(e.paws, k * e.shardSize)]

LinkEncode ==
    /\ encCalls < MaxLinkEncodes
    /\ \E rto \in 0..1, now \in 0..1, codecOk \in BOOLEAN :
          LET r == encode(enc, OrigPayload(enc.next), rto, now, codecOk)
          IN  /\ enc' = r.enc
              /\ net' = net \o <<r.data>> \o r.ps
              /\ snmp' = [snmp EXCEPT !.FECErrs = snmp.FECErrs + r.errs]
    /\ encCalls' = encCalls + 1
    /\ UNCHANGED <<dec, recovered, last, trace, sender, cursor, calls, encOut, auxVars>>

LinkDeliver ==
    /\ calls < MaxLinkFeeds
    /\ \E i \in 1..Len(net) : Feed(net[i])
    /\ UNCHANGED <<trace, sender, net, cursor, encVars, auxVars>>

NextLink == LinkEncode \/ LinkDeliver

SpecLink == InitLink /\ [][NextLink]_vars

----------------------------------------------------------------------------
(* Vocabulary of the properties *)

Range(q) == {q[i] : i \in 1..Len(q)}

\* geometry of the decoder
D == dec.dataShards
S == dec.shardSize

\* the decoder runs with the geometry of its sender
Agreed == <<dec.dataShards, dec.parityShards>> = sender

\* first sequence id of the group of sequence id seq
GroupBase(seq) == U32SubInt(seq, U32ModInt(seq, S))

\* length the encoder pads the data shards of that group to
GroupMaxLen(seq) ==
    LET lens == {Len(OrigPayload(U32AddInt(GroupBase(seq), k))) : k \in 0..(D - 1)}
    IN  CHOOSE n \in lens : \A m \in lens : m <= n

\* the payload of data slot k of that group as the encoder encoded it
Encoded(seq, k) == Pad(OrigPayload(U32AddInt(GroupBase(seq), k)), GroupMaxLen(seq))

DrainedSlots == {U32ModInt(p.seq, S) : p \in Range(last.drained)}
DrainedData == {k \in DrainedSlots : k < D}
MissingData == (0..(D - 1)) \ DrainedSlots

\* the last call brought a shard set to D members and drained it
DrainedNow == calls > 0 /\ Len(last.drained) > 0

RECURSIVE SumOut(_, _)
\* number of payloads returned by the first n calls of the trace
SumOut(t, n) == IF n = 0 THEN 0 ELSE SumOut(t, n - 1) + Len(t[n].out)

FedSeqs == {trace[i].in.seq : i \in 1..Len(trace)}

----------------------------------------------------------------------------
(* C1 - C5: the decoder on one group *)

\* C1: single-loss recovery.  When the decode call that brings a group to D
\* members finds exactly one data shard missing (D-1 data members and one
\* parity member), it returns exactly one payload, and that payload is the
\* missing data shard's payload as encoded (zero-padded to the group's
\* maximum shard length).
C1_SingleLossRecovery ==
    (Agreed /\ DrainedNow /\ Len(last.drained) = D /\ Cardinality(DrainedData) = D - 1)
        => \E k \in MissingData : recovered = <<Encoded(last.in.seq, k)>>

\* C2: a decode call that reconstructs a group returns exactly the data
\* slots that were not members, each once, with the payload of that data
\* shard; no call returns more than D payloads.
C2_RecoveredAreTheMissing ==
    /\ Len(recovered) <= D
    /\ (Agreed /\ DrainedNow /\ Cardinality(DrainedData) < D)
          => /\ Len(recovered) = Cardinality(MissingData)
             /\ \A k \in MissingData :
                   \E i \in 1..Len(recovered) : recovered[i] = Encoded(last.in.seq, k)

\* C3: full-group round trip.  After a fresh decoder was fed each of the
\* D+P shards of one group exactly once, in any order, no call has returned
\* a payload and FECFullShardSet is 1.
C3_FullGroupRoundTrip ==
    (Len(trace) = Len(net) /\ FedSeqs = {p.seq : p \in Range(net)})
        => SumOut(trace, Len(trace)) = 0 /\ snmp.FECFullShardSet = 1

\* C4: unrecoverable loss.  While fewer than D distinct shards of the group
\* have arrived, no call returns a payload, attempts a reconstruction or
\* counts an error; and no call counts more errors than it made
\* reconstruction attempts.
C4_UnrecoverableLoss ==
    /\ Cardinality(FedSeqs) < D =>
          \A i \in 1..Len(trace) :
              trace[i].out = <<>> /\ trace[i].errs = 0 /\ trace[i].attempts = 0
    /\ \A i \in 1..Len(trace) : trace[i].errs <= trace[i].attempts

\* C4, its case: D-1 distinct shards arrived, some of them more than once
C4_Witness ==
    /\ D >= 2
    /\ Cardinality(FedSeqs) = D - 1
    /\ Len(trace) > D

----------------------------------------------------------------------------
(* C6 - C8: the encoder *)

\* every packet the last encode call sealed: the data packet, then the
\* parity packets it returned
Sealed == <<encOut.data>> \o encOut.ps

\* C6: every packet sealed as Data carries a sequence id with
\* seq mod S in [0, D), every packet sealed as Parity one with seq mod S in
\* [D, S).
C6_TypeFollowsPosition ==
    encCalls > 0 =>
        \A i \in 1..Len(Sealed) :
            LET pos == U32ModInt(Sealed[i].seq, enc.shardSize)
            IN  /\ Sealed[i].flag \in {typeData, typeParity}
                /\ Sealed[i].flag = typeData => pos < enc.dataShards
                /\ Sealed[i].flag = typeParity => pos >= enc.dataShards

\* C6, its case: a data packet sealed after a cycle whose parity was skipped
C6_Witness ==
    /\ encCalls > enc.dataShards
    /\ encOut.first
    /\ U32Lt(U32(0), encOut.data.seq)
    /\ snmp.FECErrs > 0

\* C7: between encode calls 0 <= shardCount < D and next mod S = shardCount;
\* after the call that completes a cycle, next is S further (mod the PAWS
\* ceiling) than at the start of the cycle and shardCount and maxSize are 0.
C7_CycleAlignment ==
    /\ 0 <= enc.shardCount /\ enc.shardCount < enc.dataShards
    /\ U32ModInt(enc.next, enc.shardSize) = enc.shardCount
    /\ (encCalls > 0 /\ encOut.last) =>
          /\ enc.next = U32ModU32(U32AddInt(encOut.cycleStart, enc.shardSize), enc.paws)
          /\ enc.shardCount = 0
          /\ enc.maxSize = 0

\* C7, its case: a cycle that wrapped the sequence counter, parity skipped
C7_Witness ==
    /\ encCalls > 0 /\ encOut.last /\ encOut.ps = <<>>
    /\ enc.next = U32(0)
    /\ enc.dataShards >= 2

\* C8: encode returns parity only on the call that supplies the D-th data
\* shard of a cycle, and only when less than the staleness threshold has
\* elapsed and the codec succeeds; it then returns exactly P parity packets
\* carrying the P sequence ids that follow the data packet's, in order.
\* Every other call returns nothing.
C8_ParityOnlyOnFreshFullCycle ==
    encCalls > 0 =>
        IF encOut.last /\ encOut.fresh /\ encOut.codecOk
        THEN /\ Len(encOut.ps) = enc.parityShards
             /\ \A k \in 1..Len(encOut.ps) :
                   /\ encOut.ps[k].flag = typeParity
                   /\ encOut.ps[k].seq = U32AddInt(encOut.data.seq, k)
        ELSE encOut.ps = <<>>

\* C8, its case: a call that returned two parity packets
C8_Witness ==
    /\ encCalls > 0 /\ encOut.last /\ encOut.fresh /\ encOut.codecOk
    /\ Len(encOut.ps) = 2
    /\ enc.dataShards = 2

----------------------------------------------------------------------------
(* C9 - C10: floor and eviction *)

\* C9: at the return of every decode call no tracked shard set lags the
\* floor by more than 3 groups, and at most 4 shard sets are tracked.
C9_EvictionBound ==
    /\ \A id \in DOMAIN dec.shardSet : timediff(dec.minShardId, id) <= maxShardSets
    /\ Cardinality(DOMAIN dec.shardSet) <= maxShardSets + 1

\* C9, its case: four sets are tracked and an older one has been evicted
C9_Witness ==
    /\ Cardinality(DOMAIN dec.shardSet) = maxShardSets + 1
    /\ dec.minShardId > maxShardSets
    /\ \E id \in DOMAIN dec.shardSet : dec.shardSet[id].elements # <<>>

\* C10: the floor never decreases; it changes exactly when a packet of a
\* group newer than the floor is accepted on the stable path, and it then
\* becomes that packet's group id.
C10_FloorMonotonic ==
    [][LET id == getShardId(dec, last'.in.seq)
       IN  /\ dec'.minShardId >= dec.minShardId
           /\ IF last'.pushed /\ id > dec.minShardId
              THEN dec'.minShardId = id
              ELSE dec'.minShardId = dec.minShardId]_vars

\* C10, its case: after the floor advanced, a packet of an older group was
\* given to decode and the floor stayed
C10_Witness ==
    /\ calls > 1
    /\ dec.minShardId > 0
    /\ ~dec.shouldTune
    /\ getShardId(dec, last.in.seq) < dec.minShardId

----------------------------------------------------------------------------
(* C11: the sequence wrap on the receive side *)

\* the packet was sealed after the sender's counter wrapped to 0
PostWrap(in) == in.seq.hi = 0

\* sequence id seqid is a member of its group's shard set in decoder d
IsMember(d, seqid) ==
    LET id == getShardId(d, seqid)
    IN  /\ id \in DOMAIN d.shardSet
        /\ \E p \in Range(d.shardSet[id].elements) : p.seq = seqid

\* C11: a decoder of the encoder's geometry accepts the packets sealed
\* after the wrap: a post-wrap packet that is not already a member of its
\* shard set is stored, it is not dropped as older than the floor.
C11_PostWrapAccepted ==
    [][(/\ Agreed
        /\ ~dec.shouldTune
        /\ PostWrap(last'.in)
        /\ ~IsMember(dec, last'.in.seq))
       => last'.pushed]_vars

----------------------------------------------------------------------------
(* C12: the encoder's sequence counter *)

\* sequence id of the last packet an encode call sealed
LastSealed(out) == IF out.ps = <<>> THEN out.data.seq ELSE out.ps[Len(out.ps)].seq

\* the ceiling is a multiple of S and the counter is below it
PawsAligned ==
    /\ U32ModInt(enc.paws, enc.shardSize) = 0
    /\ U32Lt(enc.next, enc.paws)

\* the packets of one encode call carry consecutive ids
SealedConsecutive(out) ==
    \A k \in 1..Len(out.ps) : out.ps[k].seq = U32AddInt(out.data.seq, k)

\* the counter wrapped between the two calls: the later call starts a
\* group at sequence 0
WrappedTo(out) == out.data.seq = U32(0) /\ out.first

\* C12 as claimed: the ceiling is a multiple of S, the counter stays
\* below it, each sealed packet's id is one more than that of the packet
\* sealed before it until the counter wraps to 0, and the wrap falls on a
\* group boundary.
C12_SealedIdsIncreaseByOne ==
    [][/\ PawsAligned /\ PawsAligned'
       /\ SealedConsecutive(encOut')
       /\ encCalls > 0 =>
             \/ encOut'.data.seq = U32AddInt(LastSealed(encOut), 1)
             \/ WrappedTo(encOut')]_vars

\* C12, amended: as above, but the id of a sealed packet is one more than
\* that of the packet sealed before it, or P + 1 more when the parity of
\* the cycle in between was skipped (those P ids are left unused); ids
\* increase strictly until the counter wraps to 0 on a group boundary.
C12_SealedIdsIncrease ==
    [][/\ PawsAligned /\ PawsAligned'
       /\ SealedConsecutive(encOut')
       /\ encCalls > 0 =>
             \/ /\ U32Lt(LastSealed(encOut), encOut'.data.seq)
                /\ \/ encOut'.data.seq = U32AddInt(LastSealed(encOut), 1)
                   \/ /\ encOut.last /\ encOut.ps = <<>>
                      /\ encOut'.data.seq =
                            U32AddInt(LastSealed(encOut), enc.parityShards + 1)
             \/ /\ WrappedTo(encOut')
                /\ U32Le(U32SubInt(enc.paws, enc.shardSize), LastSealed(encOut))]_vars

\* C12, its case: the counter wrapped after a cycle whose parity was
\* skipped, and a later cycle's parity was skipped too
C12_Witness ==
    /\ encCalls > enc.dataShards + 1
    /\ encOut.first
    /\ encOut.data.seq = U32AddInt(U32(0), enc.shardSize)
    /\ snmp.FECErrs > 0

----------------------------------------------------------------------------
(* C13 - C15: retuning *)

\* the periods the Retuning branch of a call detects: pulses is the log
\* after the call sampled its packet
DetectedDS(pulses) == FindPeriod(pulses, TRUE)
DetectedPS(pulses) == FindPeriod(pulses, FALSE)

PeriodsValid(pulses) ==
    /\ DetectedDS(pulses) > 0 /\ DetectedPS(pulses) > 0
    /\ DetectedDS(pulses) < 256 /\ DetectedPS(pulses) < 256

\* the fields a reconfiguration replaces
Geometry(d) == <<d.dataShards, d.parityShards, d.shardSize, d.codec, d.cacheLen>>

\* C13 as claimed: the decoder is Stable at the return of every decode
\* call, so a packet whose type matches its position under the current
\* geometry is processed on the stable path: unless it is late or a
\* duplicate it is stored.
C13_StableAtReturn ==
    [][/\ ~dec'.shouldTune
       /\ (/\ ~Mismatch(dec, last'.in)
           /\ ~IsLate(dec.minShardId, getShardId(dec, last'.in.seq))
           /\ ~IsMember(dec, last'.in.seq))
          => last'.pushed]_vars

\* C14 as claimed: a call in the Retuning branch replaces the geometry
\* and discards the shard sets when both detected periods are valid and
\* differ from the current (D,P), and otherwise keeps geometry and shard
\* sets: in particular when the detected periods equal the current (D,P).
C14_ReconfigureOnlyIfDifferent ==
    [][(dec.shouldTune \/ Mismatch(dec, last'.in)) =>
          LET ds == DetectedDS(dec'.pulses)
              ps == DetectedPS(dec'.pulses)
          IN  IF PeriodsValid(dec'.pulses) /\ <<ds, ps>> # <<dec.dataShards, dec.parityShards>>
              THEN /\ Geometry(dec') = <<ds, ps, ds + ps, CodecNew(ds, ps), ds + ps>>
                   /\ DOMAIN dec'.shardSet = {}
              ELSE /\ Geometry(dec') = Geometry(dec)
                   /\ dec'.shardSet = dec.shardSet]_vars

\* C15: when a mismatching packet is decoded and a detected period is
\* non-positive or at least 256, the call leaves D, P, S, the codec, the
\* shard sets and the floor unchanged, does not store the packet and
\* returns no payloads.
C15_InsufficientEvidence ==
    [][(Mismatch(dec, last'.in) /\ ~PeriodsValid(dec'.pulses)) =>
          /\ Geometry(dec') = Geometry(dec)
          /\ dec'.shardSet = dec.shardSet
          /\ dec'.minShardId = dec.minShardId
          /\ ~last'.pushed
          /\ recovered' = <<>>]_vars

\* C15, its case: a mismatching packet was dropped for lack of evidence
\* while a shard set held a member and the floor had advanced
C15_Witness ==
    /\ calls > 2
    /\ dec.shouldTune
    /\ Mismatch(dec, last.in)
    /\ ~PeriodsValid(dec.pulses)
    /\ dec.minShardId > 0
    /\ \E id \in DOMAIN dec.shardSet : dec.shardSet[id].elements # <<>>

----------------------------------------------------------------------------
(* C16: malformed packets *)

\* C16: a packet shorter than the 6-byte sequence/type header is silently
\* dropped: decode does not crash, returns no payloads and leaves the
\* shard sets and the floor unchanged.
C16_ShortPacketDropped ==
    [][last'.len < fecHeaderSize =>
          /\ ~last'.panicked
          /\ recovered' = <<>>
          /\ dec'.shardSet = dec.shardSet
          /\ dec'.minShardId = dec.minShardId]_vars

----------------------------------------------------------------------------
(* C17: construction *)

\* the geometry the constructors were last called with is one they must
\* refuse: a non-positive count, or more shards than the codec can be
\* built for
Refused ==
    \/ Int64LeZero(made.dataShards)
    \/ Int64LeZero(made.parityShards)
    \/ Int64Add(made.dataShards, made.parityShards).hi # 0
    \/ CodecNew(made.dataShards.lo, made.parityShards.lo).err

\* C17: newFECDecoder and newFECEncoder return nil whenever dataShards <= 0
\* or parityShards <= 0 or the codec cannot be built; what they return
\* otherwise is fully initialised.
C17_ConstructionRefusesInvalid ==
    IF Refused
    THEN made.dec = Nil /\ made.enc = Nil
    ELSE /\ made.dec # Nil /\ made.enc # Nil
         /\ ~made.dec.codec.err /\ ~made.enc.codec.err
         /\ made.dec.shardSize = made.dataShards.lo + made.parityShards.lo
         /\ made.enc.shardSize = made.dataShards.lo + made.parityShards.lo
         /\ made.enc.payloadOffset = made.offset + fecHeaderSize

----------------------------------------------------------------------------
(* C18 - C19: the auto-tuner *)

\* C18: once a fully consecutive stream starting at sequence 0 whose tags
\* repeat d Data then p Parity, with 2d + p <= 255, has been sampled over
\* the whole window, FindPeriod(true) is d and FindPeriod(false) is p.
C18_PeriodDetected ==
    LET d == tuneIn.pattern[1]
        p == tuneIn.pattern[2]
    IN  (tuneIn.next = MaxAutoTuneSamples /\ 2 * d + p <= MaxAutoTuneSamples - 1)
            => FindPeriod(tune, TRUE) = d /\ FindPeriod(tune, FALSE) = p

\* C18, its case: the window is full of the pattern 10 Data, 3 Parity
C18_Witness ==
    /\ tuneIn.pattern = <<10, 3>>
    /\ tuneIn.next = MaxAutoTuneSamples
    /\ Cardinality(DOMAIN tune) = MaxAutoTuneSamples
    /\ FindPeriod(tune, TRUE) = 10

\* index of the left edge of bit in the log: the first slot holding bit
\* whose predecessor holds not-bit; 0 when there is none
LeftEdgeOf(bit) ==
    LET E == {i \in 1..(MaxAutoTuneSamples - 1) :
                 PulseAt(tune, i - 1).bit # bit /\ PulseAt(tune, i).bit = bit}
    IN  IF E = {} THEN 0 ELSE CHOOSE i \in E : \A j \in E : i <= j

\* slots i-1 and i do not hold consecutive sequence numbers
GapAt(i) == U32AddInt(PulseAt(tune, i - 1).seq, 1) # PulseAt(tune, i).seq

\* slot i-1 holds bit and slot i holds not-bit
TurnAt(i, bit) == PulseAt(tune, i - 1).bit = bit /\ PulseAt(tune, i).bit # bit

\* scanning forward from the left edge, a gap comes before any right edge
GapBeforeRightEdge(bit) ==
    LET L == LeftEdgeOf(bit)
        Gaps == {i \in (L + 1)..(MaxAutoTuneSamples - 1) : GapAt(i)}
        Turns == {i \in (L + 1)..(MaxAutoTuneSamples - 1) : TurnAt(i, bit)}
    IN  \E g \in Gaps : \A j \in Turns : g <= j

\* C19: if, scanning forward from the left edge, two adjacent slots do not
\* hold consecutive sequence numbers before a right edge has been reached,
\* FindPeriod(bit) returns -1.
C19_GapRejected ==
    \A bit \in BOOLEAN : GapBeforeRightEdge(bit) => FindPeriod(tune, bit) = 0 - 1

\* C19, its case: a left edge was found, and behind it, before any right
\* edge, a sequence id was missed between two sampled ones
C19_Witness ==
    LET L == LeftEdgeOf(TRUE)
    IN  /\ L > 0
        /\ \E g \in (L + 1)..(MaxAutoTuneSamples - 1) :
              /\ (g - 1) \in DOMAIN tune /\ g \notin DOMAIN tune
              /\ \E h \in DOMAIN tune : h > g
              /\ GapAt(g)
              /\ \A j \in (L + 1)..(g - 1) : ~TurnAt(j, TRUE)
        /\ FindPeriod(tune, TRUE) = 0 - 1

----------------------------------------------------------------------------
(* C20: the RingBuffer *)

\* C20: RingBuffer is a FIFO queue: Len is the number of pushes minus the
\* number of elements removed; a successful Pop returns the oldest
\* element not yet removed (the values pushed are 1, 2, 3, ...) and fails
\* only on an empty buffer; Peek returns that same element and leaves Len
\* as it was.
C20_RingIsFifo ==
    /\ RingLen(rb) = rbCount.pushes - rbCount.removed
    /\ rbOut.len = RingLen(rb)
    /\ rbOut.op = "Pop" =>
          IF rbOut.ok THEN rbOut.value = rbCount.removed
                      ELSE rbCount.pushes = rbCount.removed
    /\ rbOut.op = "Peek" =>
          IF rbOut.ok THEN rbOut.value = rbCount.removed + 1
                      ELSE rbCount.pushes = rbCount.removed
    /\ RingForEach(rb) = [i \in 1..RingLen(rb) |-> rbCount.removed + i]

\* C20, its case: a Pop after the buffer grew while its elements wrapped
\* around the end of the slice
C20_Witness ==
    /\ rbOut.op = "Pop" /\ rbOut.ok
    /\ rbOut.value > 2
    /\ RingCap(rb) > MaxRingCap
    /\ rb.tail < rb.head

\* C21: Push never fails and never overwrites a live element: Full holds
\* exactly when Len is MaxLen = len(buffer) - 1; every Push returns true
\* and leaves the elements it found, in order, followed by the new one; a
\* Push on a full buffer grows it and leaves it not Full.
C21_PushGrowsWhenFull ==
    /\ RingMaxLen(rb) = Cardinality(DOMAIN rb.buffer) - 1
    /\ RingFull(rb) <=> RingLen(rb) = RingMaxLen(rb)
    /\ rbOut.op = "Push" =>
          /\ rbOut.ok
          /\ RingForEach(rb) = Append(RingForEach(rbOut.was), rbOut.arg)
          /\ RingFull(rbOut.was) =>
                ~RingFull(rb) /\ RingCap(rb) > RingCap(rbOut.was)

\* C21, its case: a Push on a full buffer whose elements wrap around the
\* end of the slice
C21_Witness ==
    /\ rbOut.op = "Push"
    /\ RingFull(rbOut.was)
    /\ 0 < rbOut.was.tail /\ rbOut.was.tail < rbOut.was.head
    /\ RingLen(rbOut.was) >= 2

\* C22: on an empty buffer Pop returns (zero value, false) and Peek returns
\* (nil, false), and both leave head, tail and contents unchanged.
C22_EmptyPopPeek ==
    (rbOut.op \in {"Pop", "Peek"} /\ RingEmpty(rbOut.was)) =>
        /\ ~rbOut.ok
        /\ rbOut.value = 0
        /\ rbOut.op = "Peek" => rbOut.nil
        /\ rb = rbOut.was

\* C22, its case: a Pop on a buffer emptied after use, its head not at 0
C22_Witness ==
    /\ rbOut.op = "Pop"
    /\ RingEmpty(rbOut.was)
    /\ rbOut.was.head > 0
    /\ ~rbOut.ok

\* C23: Discard(n) removes exactly min(n, Len) elements from the head (0
\* when n <= 0 or the buffer is empty) and returns that count; the
\* remaining elements keep their order, so the next Pop returns the
\* (n+1)-th oldest element.
C23_DiscardFromHead ==
    rbOut.op = "Discard" =>
        LET before == RingForEach(rbOut.was)
            n == rbOut.arg
            m == IF n <= 0 THEN 0
                 ELSE IF n >= Len(before) THEN Len(before) ELSE n
        IN  /\ rbOut.value = m
            /\ RingForEach(rb) = SubSeq(before, m + 1, Len(before))
            /\ m < Len(before) =>
                  RingPop(rb).ok /\ RingPop(rb).value = before[m + 1]

\* C23, its case: Discard(2) on a wrapped buffer holding one element, and
\* on one holding three
C23_Witness ==
    /\ rbOut.op = "Discard" /\ rbOut.arg = 2
    /\ rbOut.was.tail < rbOut.was.head
    /\ \/ RingLen(rbOut.was) = 1 /\ rbOut.value = 1
       \/ RingLen(rbOut.was) = 3 /\ rbOut.value = 2

\* number of callback invocations of an iteration over n elements stopped
\* at the stop-th one
Visited(n, stop) == IF stop = 0 \/ stop > n THEN n ELSE stop

\* C24: ForEach visits every stored element exactly once in FIFO order and
\* ForEachReverse in exactly the reverse order, for any head/tail position;
\* iteration stops immediately after the first callback that returns
\* false, and neither changes the buffer (the values pushed are 1, 2, ...).
C24_IterationOrder ==
    LET n == Visited(rbCount.pushes - rbCount.removed, rbOut.arg)
    IN  /\ rbOut.op = "ForEach" =>
              /\ rbOut.seen = [i \in 1..n |-> rbCount.removed + i]
              /\ rb = rbOut.was
        /\ rbOut.op = "ForEachReverse" =>
              /\ rbOut.seen = [i \in 1..n |-> rbCount.pushes + 1 - i]
              /\ rb = rbOut.was

\* C24, its case: a reverse iteration over a buffer wrapped around the end
\* of the slice, stopped at the second of three elements
C24_Witness ==
    /\ rbOut.op = "ForEachReverse" /\ rbOut.arg = 2
    /\ 0 < rb.tail /\ rb.tail < rb.head
    /\ RingLen(rb) = 3
    /\ Len(rbOut.seen) = 2

----------------------------------------------------------------------------
(* C25: the Timer *)

\* no function is executed twice
RunsAtMostOnce == \A f \in 1..NumPuts : tm.runs[f] <= 1

\* C25 as stated: every function given to Put while the timer is not
\* closed is eventually executed, exactly once.
C25_EveryPutRunsOnce ==
    /\ []RunsAtMostOnce
    /\ \A f \in 1..NumPuts : tm.open[f] ~> (tm.runs[f] = 1)

\* C25, amended: every function given to Put while the timer is not closed
\* is executed at most once, and is eventually executed unless the timer
\* is closed first.
C25_EveryPutRunsOnceUnlessClosed ==
    /\ []RunsAtMostOnce
    /\ \A f \in 1..NumPuts : tm.open[f] ~> (tm.runs[f] = 1 \/ tm.closed)

\* C25, its case: all functions have run once on an open timer, one of
\* them put while the notification of another was still pending, one of
\* them kept in a heap until its deadline had passed
C25_Witness ==
    /\ \A f \in 1..NumPuts : tm.open[f] /\ tm.runs[f] = 1
    /\ tm.skipped
    /\ ~tm.closed
    /\ \E w \in DOMAIN tm.seched : tm.seched[w].drained /\ tm.seched[w].tasks = {}
    /\ \E f \in 1..NumPuts : tm.ts[f] = MaxDeadline

----------------------------------------------------------------------------
(* C26 - C27: transmission *)

\* the WriteTo calls of a call of defaultTx on txIn.txqueue: one per
\* message in queue order, up to and including the first that fails
FirstFailure ==
    IF txIn.fails = {} THEN 0
    ELSE CHOOSE k \in txIn.fails : \A j \in txIn.fails : k <= j

PlainWrites ==
    LET m == IF FirstFailure = 0 THEN Len(txIn.txqueue) ELSE FirstFailure
    IN  [k \in 1..m |-> [msg |-> txIn.txqueue[k], ok |-> k # FirstFailure]]

\* tx routes by xconn, and a failed batch write is recorded and followed
\* by defaultTx on the whole queue
RoutedAndFallback ==
    /\ sess.called = IF ~txIn.xconn THEN <<"defaultTx">>
                     ELSE IF txIn.batchFails THEN <<"batchTx", "defaultTx">>
                     ELSE <<"batchTx">>
    /\ txIn.xconn => sess.xconnLog = <<[msgs |-> txIn.txqueue, ok |-> ~txIn.batchFails]>>
    /\ (txIn.xconn /\ txIn.batchFails) => sess.xconnWriteError = BatchError
    /\ (txIn.xconn /\ ~txIn.batchFails) =>
          sess.conn = <<>> /\ sess.xconnWriteError = txIn.was.xconnWriteError

\* C26 as stated: tx sends with batchTx when xconn != nil and with
\* defaultTx otherwise; when the batch write fails, batchTx records the
\* error and sends the whole queue through defaultTx, so every message is
\* written once to the plain connection.
C26_FallbackWritesEveryMessage ==
    txIn.n > 0 =>
        /\ RoutedAndFallback
        /\ (txIn.xconn /\ txIn.batchFails) =>
              sess.conn = [k \in 1..Len(txIn.txqueue) |->
                              [msg |-> txIn.txqueue[k], ok |-> TRUE]]

\* C26, amended: ... and sends the whole queue through defaultTx, which
\* writes the messages to the plain connection in queue order up to the
\* first write that fails: every message is written once when no write
\* to the plain connection fails.
C26_FallbackToDefaultTx ==
    txIn.n > 0 =>
        /\ RoutedAndFallback
        /\ (txIn.xconn /\ txIn.batchFails) => sess.conn = PlainWrites

\* C26, its case: the batch write of a queue of several messages failed
\* and every message went out on the plain connection
C26_Witness ==
    /\ txIn.n > 0 /\ txIn.xconn /\ txIn.batchFails
    /\ Len(txIn.txqueue) = MaxQueue
    /\ txIn.fails = {}
    /\ Len(sess.conn) = MaxQueue
    /\ sess.xconnWriteError = BatchError

\* C27: defaultTx writes the queued messages in queue order and stops at
\* the first write that fails: it raises the write-error notification for
\* that error, writes none of the messages after it, and adds to OutPkts
\* and OutBytes only the packets and bytes of the writes that succeeded.
C27_DefaultTxStopsAtFirstError ==
    (txIn.n > 0 /\ "defaultTx" \in {sess.called[i] : i \in DOMAIN sess.called}) =>
        LET sent == IF FirstFailure = 0 THEN txIn.txqueue
                    ELSE SubSeq(txIn.txqueue, 1, FirstFailure - 1)
        IN  /\ sess.conn = PlainWrites
            /\ sess.notified = IF FirstFailure = 0 THEN <<>>
                               ELSE <<WriteError(FirstFailure)>>
            /\ sess.OutPkts = txIn.was.OutPkts + Len(sent)
            /\ sess.OutBytes = txIn.was.OutBytes + TotalLen(sent)

\* C27, its case: the second of three writes failed and the third would
\* have succeeded
C27_Witness ==
    /\ txIn.n > 0 /\ ~txIn.xconn
    /\ Len(txIn.txqueue) = 3 /\ txIn.fails = {2}
    /\ Len(sess.conn) = 2
    /\ sess.OutPkts = txIn.was.OutPkts + 1
    /\ sess.notified = <<WriteError(2)>>

----------------------------------------------------------------------------
(* C28 - C30: the decode call *)

\* C28: in a decode call where a shard set reaches D members, the members
\* are all drained before the group is classified: at most one
\* reconstruction is attempted in the call, and when all D data shards are
\* members the group is recorded complete, no reconstruction is attempted
\* and FECErrs is not incremented.
C28_ClassifiedAfterDrain ==
    (DrainedNow /\ Len(trace) > 0) =>
        /\ last.attempts <= 1
        /\ Cardinality(DrainedData) = D =>
              /\ trace[Len(trace)].full = 1
              /\ last.attempts = 0
              /\ trace[Len(trace)].errs = 0

\* the call on packet in takes the stable path in decoder d: its type
\* agrees with its position and no retune is pending
Stable(d, in) == ~d.shouldTune /\ ~Mismatch(d, in)

\* on the stable path, the packet's group is older than the floor
RejectedLate(d, in) == Stable(d, in) /\ getShardId(d, in.seq) < d.minShardId

\* on the stable path, the packet is not late and its sequence id is
\* marked in its group's shard set
RejectedDuplicate(d, in) ==
    /\ Stable(d, in)
    /\ ~RejectedLate(d, in)
    /\ getShardId(d, in.seq) \in DOMAIN d.shardSet
    /\ in.seq \in d.shardSet[getShardId(d, in.seq)].marks

\* C29: every decode call feeds exactly one sample (type == Data,
\* sequence) to the auto-tuner, whatever becomes of the packet: the log
\* after the call is the log before it with that one sample given to
\* Sample.
C29_EveryPacketSampled ==
    [][calls' = calls + 1 =>
          dec'.pulses = Sample(dec.pulses, last'.in.flag = typeData, last'.in.seq)]_vars

\* C29, its case: parity packets dropped as late and as mismatching are
\* in the log
C29_Witness ==
    /\ calls > 1
    /\ ~last.pushed
    /\ last.in.flag = typeParity
    /\ \/ getShardId(dec, last.in.seq) < dec.minShardId /\ ~dec.shouldTune
       \/ dec.shouldTune
    /\ PulseAt(dec.pulses, U32ModInt(last.in.seq, MaxAutoTuneSamples))
          = [bit |-> FALSE, seq |-> last.in.seq]

\* C30: a packet rejected as late or as a duplicate leaves the tracked
\* shard sets, their members and the floor unchanged and returns an empty
\* list.  No shard set older than the floor is ever created, and a call
\* evicts only shard sets older than the floor it leaves: with the floor
\* never decreasing, an evicted shard set is never created again.
C30_RejectedLeavesSets ==
    [][calls' = calls + 1 =>
          /\ (RejectedLate(dec, last'.in) \/ RejectedDuplicate(dec, last'.in)) =>
                /\ dec'.shardSet = dec.shardSet
                /\ dec'.minShardId = dec.minShardId
                /\ recovered' = <<>>
                /\ ~last'.pushed
          /\ \A id \in DOMAIN dec'.shardSet \ DOMAIN dec.shardSet :
                id >= dec.minShardId
          /\ Stable(dec, last'.in) =>
                \A id \in DOMAIN dec.shardSet \ DOMAIN dec'.shardSet :
                    id < dec'.minShardId - maxShardSets
          /\ dec'.minShardId >= dec.minShardId]_vars

\* C30, its case: a packet of a group whose shard set has been evicted was
\* given to decode and its shard set is not tracked
C30_Witness ==
    /\ calls > 1
    /\ ~dec.shouldTune
    /\ \E id \in DOMAIN dec.shardSet : dec.shardSet[id].elements # <<>>
    /\ getShardId(dec, last.in.seq) < dec.minShardId - maxShardSets
    /\ getShardId(dec, last.in.seq) \notin DOMAIN dec.shardSet
    /\ ~last.pushed /\ recovered = <<>>

----------------------------------------------------------------------------
(* C31 - C34: the auto-tuner's window *)

\* the sequence stored in slot 0 of a log
AnchorOf(pulses) == PulseAt(pulses, 0).seq

\* anchor + 256 does not fit in 32 bits
WindowWraps(pulses) ==
    U32Lt(U32AddInt(AnchorOf(pulses), MaxAutoTuneSamples), AnchorOf(pulses))

\* C31: Sample(bit, seq) changes the log exactly when anchor <= seq <=
\* anchor + 256, anchor being the sequence in slot 0 at the call and the sum
\* taken modulo 2^32; it then writes (bit, seq) to slot seq mod 256 and to
\* no other slot; otherwise every slot is as before.
C31_SampleWindow ==
    tuneIn.next > 0 =>
        LET anchor == AnchorOf(tuneIn.was)
            sum == anchor.lo + MaxAutoTuneSamples
            upper == [hi |-> (anchor.hi + (IF sum >= W16 THEN 1 ELSE 0)) % W16,
                      lo |-> sum % W16]
            accepted == U32Le(anchor, tuneIn.seq) /\ U32Le(tuneIn.seq, upper)
            slot == tuneIn.seq.lo % MaxAutoTuneSamples
        IN  \A i \in 0..(MaxAutoTuneSamples - 1) :
                PulseAt(tune, i) =
                    IF accepted /\ i = slot
                    THEN [bit |-> tuneIn.bit, seq |-> tuneIn.seq]
                    ELSE PulseAt(tuneIn.was, i)

\* C31, its case: the sample with sequence anchor + 256 was accepted into
\* slot 0 of a log holding other samples, which are as before
C31_Witness ==
    /\ tuneIn.next > 1
    /\ tuneIn.seq = U32AddInt(AnchorOf(tuneIn.was), MaxAutoTuneSamples)
    /\ ~WindowWraps(tuneIn.was)
    /\ tuneIn.bit
    /\ tune[0] = [bit |-> TRUE, seq |-> tuneIn.seq]
    /\ 1 \in DOMAIN tune /\ tune[1] = tuneIn.was[1]

\* C34: the sequence in slot 0 is a multiple of 256 and never decreases; a
\* call changes it only to the sequence it was given, that being the
\* anchor plus 256; a sample whose sequence is above anchor + 256 leaves
\* the log as it was, and so does every sample once anchor + 256 no longer
\* fits in 32 bits.
C34_AnchorAdvance ==
    [][/\ AnchorOf(tune').lo % MaxAutoTuneSamples = 0
       /\ U32Le(AnchorOf(tune), AnchorOf(tune'))
       /\ AnchorOf(tune') # AnchorOf(tune) =>
             /\ AnchorOf(tune') = tuneIn'.seq
             /\ tuneIn'.seq = U32AddInt(AnchorOf(tune), MaxAutoTuneSamples)
             /\ ~WindowWraps(tune)
       /\ (~WindowWraps(tune)
             /\ U32Lt(U32AddInt(AnchorOf(tune), MaxAutoTuneSamples), tuneIn'.seq)) =>
             tune' = tune
       /\ WindowWraps(tune) => tune' = tune]_vars

\* C34, its case: the anchor has advanced to 512, and a sample of a
\* sequence beyond 768 was given and ignored
C34_Witness ==
    /\ tuneIn.next > 1
    /\ AnchorOf(tune) = U32(2 * MaxAutoTuneSamples)
    /\ U32Lt(U32(3 * MaxAutoTuneSamples), tuneIn.seq)
    /\ tune = tuneIn.was

\* C32: when no slot from 1 to 255 holds bit with not-bit in the slot
\* before it, FindPeriod(bit) is not a positive length.
C32_NoLeftEdgeFails ==
    \A bit \in BOOLEAN : LeftEdgeOf(bit) = 0 => FindPeriod(tune, bit) <= 0

\* C33: FindPeriod(bit) is -1 or a length in 1..255.
C33_PeriodOrMinusOne ==
    \A bit \in BOOLEAN :
        \/ FindPeriod(tune, bit) = 0 - 1
        \/ FindPeriod(tune, bit) \in 1..(MaxAutoTuneSamples - 1)

----------------------------------------------------------------------------
(* C35: launch times *)

\* the functions a step launches (go task.execute())
Launched == {f \in 1..NumPuts : tm'.runs[f] > tm.runs[f]}

\* C35: a function is launched only when the time the worker compares
\* with is after its deadline: the time at which the task was received,
\* or the fire time of the worker's timer for a task that was queued; the
\* clock then is past the deadline too.  The queued tasks a worker launches
\* are popped in non-decreasing order of deadline, and none of them is due
\* later than a task the worker keeps.
C35_NeverBeforeDeadline ==
    [][\A f \in Launched :
          /\ tm.now > tm.ts[f]
          /\ \A w \in DOMAIN tm.seched :
                f \in tm.seched[w].tasks =>
                    LET tnow == tm.seched[w].fired
                        popped == PopDue(tm.seched[w].tasks, tm.ts, tnow)
                    IN  /\ tnow # NoTime /\ tnow > tm.ts[f] /\ tnow <= tm.now
                        /\ \E k \in DOMAIN popped : popped[k] = f
                        /\ \A k \in DOMAIN popped : popped[k] \in Launched
                        /\ \A j, k \in DOMAIN popped :
                              j < k => tm.ts[popped[j]] <= tm.ts[popped[k]]
                        /\ \A g \in tm'.seched[w].tasks : tm.ts[f] <= tm.ts[g]]_vars

\* C35, its case: two functions with different deadlines have both been
\* launched, a worker having received its timer's value, and the clock is
\* past the later deadline
C35_Witness ==
    /\ \A f \in 1..NumPuts : tm.runs[f] = 1
    /\ \E f, g \in 1..NumPuts : tm.ts[f] < tm.ts[g]
    /\ \E w \in DOMAIN tm.seched : tm.seched[w].drained
    /\ tm.now > MaxDeadline

----------------------------------------------------------------------------
(* C36: encoder and decoder of one geometry *)

\* C36: a decoder constructed with the geometry of the encoder whose
\* packets it is given never sees a packet whose type disagrees with its
\* position: shouldTune stays false and D, P, S stay as constructed.
C36_NoMismatchWhenAgreed ==
    /\ ~dec.shouldTune
    /\ <<dec.dataShards, dec.parityShards>> = sender
    /\ dec.shardSize = sender[1] + sender[2]
    /\ calls > 0 => ~Mismatch(dec, last.in)

\* C36, its case: the decoder was given, after other packets, a data
\* packet sent first in the cycle after one whose parity was skipped
C36_Witness ==
    /\ calls > 1
    /\ last.in.flag = typeData
    /\ \E i \in 1..(Len(net) - 1) :
          /\ net[i + 1] = last.in
          /\ net[i].flag = typeData
          /\ net[i + 1].seq = U32AddInt(net[i].seq, 1 + sender[2])

----------------------------------------------------------------------------
(* C37 - C40: the floor and the shard sets *)

\* C37: the floor is the largest group id of a packet accepted so far (0
\* before any): a call that accepts a packet of group g does so with g at
\* or above the floor and leaves the floor at g, and a call that accepts
\* none leaves the floor alone.  A tracked shard set older than the floor
\* that a call retains is retained as it was: it gains no member and is
\* not drained; and it is retained only while the floor is at most
\* maxShardSets groups ahead of it.
C37_FloorIsNewestAccepted ==
    [][calls' = calls + 1 =>
          LET g == getShardId(dec, last'.in.seq)
          IN  /\ last'.pushed =>
                    /\ g >= dec.minShardId
                    /\ dec'.minShardId = g
              /\ ~last'.pushed => dec'.minShardId = dec.minShardId
              /\ \A id \in DOMAIN dec.shardSet \cap DOMAIN dec'.shardSet :
                    id < dec.minShardId => dec'.shardSet[id] = dec.shardSet[id]
              /\ \A id \in DOMAIN dec'.shardSet :
                    dec'.minShardId - id <= maxShardSets]_vars

\* C37, its case: a packet of a group older than the floor, whose shard
\* set is tracked and holds a member, was given to decode and was not
\* stored
C37_Witness ==
    /\ calls > 1
    /\ ~dec.shouldTune
    /\ ~last.pushed
    /\ LET g == getShardId(dec, last.in.seq)
       IN  /\ g < dec.minShardId
           /\ g \in DOMAIN dec.shardSet
           /\ dec.shardSet[g].elements # <<>>
           /\ last.in.seq \notin dec.shardSet[g].marks

\* the call on packet in ends a retune of decoder d: it enters the
\* Retuning branch and leaves shouldTune false in decoder e
Retuned(d, in, e) == (d.shouldTune \/ Mismatch(d, in)) /\ ~e.shouldTune

\* C38: a call that retunes sets D, P, S to the detected periods and their
\* sum, leaves no shard set tracked and leaves the floor as it was; and a
\* packet taking the stable path whose group id under the current S is
\* below the floor is dropped as late: it is not stored, nothing is
\* returned and the shard sets are as before.
C38_RetuneKeepsFloor ==
    [][calls' = calls + 1 =>
          /\ Retuned(dec, last'.in, dec') =>
                /\ dec'.dataShards = DetectedDS(dec'.pulses)
                /\ dec'.parityShards = DetectedPS(dec'.pulses)
                /\ dec'.shardSize = dec'.dataShards + dec'.parityShards
                /\ DOMAIN dec'.shardSet = {}
                /\ dec'.minShardId = dec.minShardId
          /\ (Stable(dec, last'.in)
                /\ getShardId(dec, last'.in.seq) < dec.minShardId) =>
                /\ ~last'.pushed
                /\ recovered' = <<>>
                /\ dec'.shardSet = dec.shardSet
                /\ dec'.minShardId = dec.minShardId]_vars

\* C38, its case: after a retune that found the floor above 0 (no shard
\* set is tracked, which on the stable path never happens once a packet
\* was accepted), a packet matching the new geometry whose group is older
\* than the floor was given and dropped
C38_Witness ==
    /\ calls > 1
    /\ ~dec.shouldTune
    /\ DOMAIN dec.shardSet = {}
    /\ dec.minShardId > 0
    /\ ~Mismatch(dec, last.in)
    /\ getShardId(dec, last.in.seq) < dec.minShardId
    /\ ~last.pushed

\* C39: no decode call returns, as a recovered payload, the data shard of
\* a sequence id that an earlier decode call had accepted.  The data
\* shards of a group have pairwise different payloads, so a returned
\* payload names its data slot.
C39_NoDoubleDelivery ==
    [][calls' = calls + 1 =>
          \A i \in 1..Len(recovered'), k \in 0..(D - 1) :
              recovered'[i] = Encoded(last'.in.seq, k) =>
                  ~\E j \in 1..Len(trace) :
                      /\ trace[j].pushed
                      /\ trace[j].in.seq = U32AddInt(GroupBase(last'.in.seq), k)]_vars

\* the members of every tracked shard set of decoder d are fewer than D,
\* have pairwise distinct sequence ids, and belong to the set's group
SetsInOrder(d) ==
    \A id \in DOMAIN d.shardSet :
        LET m == d.shardSet[id].elements
        IN  /\ Len(m) < d.dataShards
            /\ \A i, j \in 1..Len(m) : i # j => m[i].seq # m[j].seq
            /\ \A i \in 1..Len(m) : getShardId(d, m[i].seq) = id

\* C40: at the return of every decode call every tracked shard set holds
\* fewer than D members, with pairwise distinct sequence ids, all of the
\* group the set is kept under; the call that stores the packet bringing a
\* set to D members leaves that set empty.
C40_SetsBelowQuorum ==
    [][calls' = calls + 1 =>
          /\ SetsInOrder(dec')
          /\ LET g == getShardId(dec, last'.in.seq)
                 had == IF g \in DOMAIN dec.shardSet
                        THEN Len(dec.shardSet[g].elements) ELSE 0
             IN  (last'.pushed /\ had + 1 >= dec.dataShards) =>
                     /\ g \in DOMAIN dec'.shardSet
                     /\ dec'.shardSet[g].elements = <<>>
                     /\ Len(last'.drained) = had + 1]_vars

\* C40, its case: with D = 2, the last call drained a shard set while
\* another tracked shard set holds a member
C40_Witness ==
    /\ dec.dataShards = 2
    /\ last.pushed
    /\ Len(last.drained) = 2
    /\ \E id \in DOMAIN dec.shardSet : Len(dec.shardSet[id].elements) = 1
    /\ dec.shardSet[getShardId(dec, last.in.seq)].elements = <<>>

====
